---- MODULE Spec2Model ----
(***************************************************************************)
(* Model of the bank-statement transaction assembly engine                 *)
(* (mae_pdf_processing/api_parser.py).                                     *)
(*                                                                         *)
(* A Python str is a sequence of one-character strings, so that every      *)
(* regular expression, substring test and numeric conversion of the code   *)
(* is computed on the characters of the line.  The input alphabet is       *)
(* ASCII: digits, upper- and lower-case letters, space and the             *)
(* punctuation of the statements.  Vocabulary entries of the code that     *)
(* contain CJK characters can never occur in such a line and are left out  *)
(* of the noise lists.                                                     *)
(***************************************************************************)
EXTENDS Integers, Sequences, FiniteSets, TLC

VARIABLES
    mode,            \* key of MODE_HANDLERS chosen for the document
    filename,        \* the document's filename
    lines,           \* text.split("\n") of the extracted text
    pc,              \* position of the handler
    data,            \* the filtered line sequence the assembler scans
    i,               \* scan index into data (1-based)
    cur,             \* the current (open) record of the assembler
    desc,            \* the description buffer of the assembler
    out,             \* sealed records
    year_statement,  \* year resolved for the document
    result,          \* what the handler returned or raised
    start_marker,    \* marker pair of a _remove_sections call
    end_marker,
    server_pc,       \* position of process_pdfs ("idle": no request)
    response_format, \* form field of the request
    files,           \* the uploads of the request: filename and payload
    uploaded,        \* index (1-based) of the upload the loop is at
    all_dataframes,  \* tables of the successful files, in the order appended
    errors,          \* {file, error} entries, in the order appended
    examined,        \* history: per upload the loop reached, what was done with it
    response         \* what process_pdfs answered

\* the state of process_pdfs
server == <<server_pc, response_format, files, uploaded, all_dataframes, errors,
            examined, response>>

vars == <<mode, filename, lines, pc, data, i, cur, desc, out, year_statement,
          result, start_marker, end_marker, server>>

----------------------------------------------------------------------------
(* Strings *)

Digit == {"0", "1", "2", "3", "4", "5", "6", "7", "8", "9"}

WS == {" "}

DigitVal(c) ==
    CASE c = "0" -> 0 [] c = "1" -> 1 [] c = "2" -> 2 [] c = "3" -> 3
      [] c = "4" -> 4 [] c = "5" -> 5 [] c = "6" -> 6 [] c = "7" -> 7
      [] c = "8" -> 8 [] c = "9" -> 9

\* s[k:k+len(p)] == p
HasAt(s, k, p) ==
    /\ k >= 1
    /\ k + Len(p) - 1 <= Len(s)
    /\ SubSeq(s, k, k + Len(p) - 1) = p

\* Python `p in s`
In(p, s) == \E k \in 1..(Len(s) - Len(p) + 1) : HasAt(s, k, p)

\* any(s in line for s in strings)
AnyIn(strings, line) == \E p \in strings : In(p, line)

RECURSIVE lstrip(_)
lstrip(s) == IF s # <<>> /\ Head(s) \in WS THEN lstrip(Tail(s)) ELSE s

RECURSIVE rstrip_chars(_, _)
rstrip_chars(s, chars) ==
    IF s # <<>> /\ s[Len(s)] \in chars
    THEN rstrip_chars(SubSeq(s, 1, Len(s) - 1), chars)
    ELSE s

\* str.strip()
strip(s) == rstrip_chars(lstrip(s), WS)

\* str.replace(c, "") for every character c of chars
RemoveChars(s, chars) == SelectSeq(s, LAMBDA c : c \notin chars)

\* str.isdigit() / str.isnumeric() on an ASCII string
isdigit(s) == s # <<>> /\ \A k \in 1..Len(s) : s[k] \in Digit

\* index just after the maximal run of digits that starts at k
RECURSIVE DigitRunEnd(_, _)
DigitRunEnd(s, k) ==
    IF k <= Len(s) /\ s[k] \in Digit THEN DigitRunEnd(s, k + 1) ELSE k

\* int(s) of a string of digits
RECURSIVE DigitsToInt(_)
DigitsToInt(s) ==
    IF s = <<>> THEN 0
    ELSE 10 * DigitsToInt(SubSeq(s, 1, Len(s) - 1)) + DigitVal(s[Len(s)])

\* the value a pandas column holds for a missing entry (None / NaN)
Null == <<"<null>">>

\* stands for a vocabulary entry written in CJK characters: no line over the
\* ASCII alphabet contains it
CJK == <<"<cjk>">>

\* all sequences over S of length lo..hi
SeqsOf(S, lo, hi) == UNION {[1..k -> S] : k \in lo..hi}

\* a is a subsequence of b (order kept, elements of b possibly left out)
RECURSIVE IsSubseq(_, _)
IsSubseq(a, b) ==
    IF a = <<>> THEN TRUE
    ELSE IF b = <<>> THEN FALSE
    ELSE IF Head(a) = Head(b) THEN IsSubseq(Tail(a), Tail(b))
    ELSE IsSubseq(a, Tail(b))

\* least element of a non-empty set of integers
Min(S) == CHOOSE x \in S : \A z \in S : x <= z

----------------------------------------------------------------------------
(* _remove_sections *)

RECURSIVE remove_sections_loop(_, _, _, _)
remove_sections_loop(ls, in_section, sm, em) ==
    IF ls = <<>> THEN <<>>
    ELSE LET line == Head(ls) IN
         IF In(sm, line) THEN remove_sections_loop(Tail(ls), TRUE, sm, em)
         ELSE IF In(em, line) THEN remove_sections_loop(Tail(ls), FALSE, sm, em)
         ELSE IF ~in_section
              THEN <<line>> \o remove_sections_loop(Tail(ls), in_section, sm, em)
              ELSE remove_sections_loop(Tail(ls), in_section, sm, em)

\* mutant: the end-marker line is not skipped
RECURSIVE remove_sections_keep_end(_, _, _, _)
remove_sections_keep_end(ls, in_section, sm, em) ==
    IF ls = <<>> THEN <<>>
    ELSE LET line == Head(ls) IN
         IF In(sm, line) THEN remove_sections_keep_end(Tail(ls), TRUE, sm, em)
         ELSE IF In(em, line)
              THEN <<line>> \o remove_sections_keep_end(Tail(ls), FALSE, sm, em)
         ELSE IF ~in_section
              THEN <<line>> \o remove_sections_keep_end(Tail(ls), in_section, sm, em)
              ELSE remove_sections_keep_end(Tail(ls), in_section, sm, em)

remove_sections_mutant(ls, sm, em) == remove_sections_keep_end(ls, FALSE, sm, em)

_remove_sections(ls, sm, em) == remove_sections_loop(ls, FALSE, sm, em)

----------------------------------------------------------------------------
(* Numbers and dates *)

\* A float is the exact decimal m / 10^e; NaN (pandas' missing number) has ok = FALSE.
NaN == [ok |-> FALSE, m |-> 0, e |-> 0]

RECURSIVE Pow10(_)
Pow10(n) == IF n = 0 THEN 1 ELSE 10 * Pow10(n - 1)

\* float(s) / pd.to_numeric(s) of a decimal literal: optional sign, digits with an
\* optional point, surrounding blanks allowed; anything else is not a number
\* (the alphabet's words "inf", "nan" and exponent forms are not among the inputs).
ParseFloat(s0) ==
    LET s   == strip(s0)
        neg == s # <<>> /\ s[1] = "-"
        u   == IF s # <<>> /\ s[1] \in {"+", "-"} THEN Tail(s) ELSE s
        a   == DigitRunEnd(u, 1)
        dot == a <= Len(u) /\ u[a] = "."
        b   == IF dot THEN DigitRunEnd(u, a + 1) ELSE a
        ip  == SubSeq(u, 1, a - 1)
        fp  == IF dot THEN SubSeq(u, a + 1, b - 1) ELSE <<>>
        f   == rstrip_chars(fp, {"0"})
        mag == DigitsToInt(ip \o f)
    IN  IF b = Len(u) + 1 /\ (ip # <<>> \/ fp # <<>>)
        THEN [ok |-> TRUE, m |-> IF neg THEN 0 - mag ELSE mag, e |-> Len(f)]
        ELSE NaN

\* a > b on floats; any comparison with NaN is False
Gt(a, b) == a.ok /\ b.ok /\ a.m * Pow10(b.e) > b.m * Pow10(a.e)

DaysInMonth(m, y) ==
    IF m \in {4, 6, 9, 11} THEN 30
    ELSE IF m = 2 THEN (IF y % 4 = 0 /\ (y % 100 # 0 \/ y % 400 = 0) THEN 29 ELSE 28)
    ELSE 31

BadDate == [ok |-> FALSE, d |-> 0, m |-> 0, y |-> 0]

\* pd.to_datetime(s, format="%d<sep>%m<sep>%y") of a string that starts with two
\* digits, sep, two digits (every caller passes an anchor line): the whole string
\* must be consumed and name a calendar day; %y maps 00..68 to 20xx, 69..99 to 19xx.
ParseDMy(s, sep) ==
    IF /\ Len(s) = 8
       /\ \A k \in {1, 2, 4, 5, 7, 8} : s[k] \in Digit
       /\ s[3] = sep /\ s[6] = sep
    THEN LET d  == DigitsToInt(SubSeq(s, 1, 2))
             m  == DigitsToInt(SubSeq(s, 4, 5))
             yy == DigitsToInt(SubSeq(s, 7, 8))
             y  == IF yy <= 68 THEN 2000 + yy ELSE 1900 + yy
         IN  IF m \in 1..12 /\ d >= 1 /\ d <= DaysInMonth(m, y)
             THEN [ok |-> TRUE, d |-> d, m |-> m, y |-> y]
             ELSE BadDate
    ELSE BadDate

\* t fully matches \d{1,3}(,\d{3})*
ThousandsFull(t) ==
    LET n == Len(t)
        g == n % 4
    IN  /\ g \in 1..3
        /\ \A k \in 1..n :
              IF k > g /\ (k - g) % 4 = 1 THEN t[k] = "," ELSE t[k] \in Digit

----------------------------------------------------------------------------
(* Results of a handler *)

NoResult == [kind |-> "none", err |-> "", rows |-> <<>>]

Table(rows) == [kind |-> "table", err |-> "", rows |-> rows]

\* err names the exception: "NoTransactionsExtracted" is the ValueError
\* "No ... transactions (were) extracted", "UnresolvedYear" the ValueError
\* "Could not find statement year"; the others are the exceptions the
\* interpreter or pandas raise.
Raise(err) == [kind |-> "error", err |-> err, rows |-> <<>>]

EmptyDict == [k \in {} |-> <<>>]

\* dict.get(key, default)
Get(d, key, default) == IF key \in DOMAIN d THEN d[key] ELSE default

\* d[key] = v
Put(d, key, v) == (key :> v) @@ d

COMMON_STRINGS_TO_REMOVE == {
    <<"T","A","R","I","K","H"," ","M","A","S","U","K">>,
    <<"B","U","T","I","R"," ","U","R","U","S","N","I","A","G","A">>,
    <<"J","U","M","L","A","H"," ","U","R","U","S","N","I","A","G","A">>,
    <<"B","A","K","I"," ","P","E","N","Y","A","T","A">>,
    <<"T","A","R","I","K","H"," ","N","I","L","A","I">> }

\* [line for line in lines if not any(s in line for s in strings)]
NoiseFilter(ls, strings) == SelectSeq(ls, LAMBDA line : ~AnyIn(strings, line))

----------------------------------------------------------------------------
(* _determine_flow *)

\* mutant: the signs are swapped
determine_flow_swapped(transaction_amount) ==
    IF transaction_amount # <<>> /\ transaction_amount[Len(transaction_amount)] = "+"
    THEN "withdrawal"
    ELSE IF transaction_amount # <<>> /\ transaction_amount[Len(transaction_amount)] = "-"
    THEN "deposit"
    ELSE "unknown"

_determine_flow(transaction_amount) ==
    IF transaction_amount # <<>> /\ transaction_amount[Len(transaction_amount)] = "+"
    THEN "deposit"
    ELSE IF transaction_amount # <<>> /\ transaction_amount[Len(transaction_amount)] = "-"
    THEN "withdrawal"
    ELSE "unknown"

----------------------------------------------------------------------------
(* _parse_maybank_debit *)

\* re.compile(r"\d{2}/\d{2}/\d{2}").match(line), also found at offset k by search
DateYYAt(s, k) ==
    /\ k + 7 <= Len(s)
    /\ \A j \in {0, 1, 3, 4, 6, 7} : s[k + j] \in Digit
    /\ s[k + 2] = "/" /\ s[k + 5] = "/"

\* end (exclusive) of the match of \d+,\d+\.\d+ that starts at k, or 0
NumCommaEnd(s, k) ==
    LET a == DigitRunEnd(s, k)
        b == DigitRunEnd(s, a + 1)
        c == DigitRunEnd(s, b + 1)
    IN  IF /\ a > k /\ a <= Len(s) /\ s[a] = ","
           /\ b > a + 1 /\ b <= Len(s) /\ s[b] = "."
           /\ c > b + 1
        THEN c ELSE 0

\* df["Transaction Description"].str.extract(r"(\d+,\d+\.\d+)")[0], then
\* .str.replace(",", "").astype(float)
StatementBalance2(description) ==
    LET starts == {k \in 1..Len(description) : NumCommaEnd(description, k) # 0}
    IN  IF starts = {} THEN NaN
        ELSE LET k == CHOOSE x \in starts : \A z \in starts : x <= z
             IN  ParseFloat(RemoveChars(SubSeq(description, k, NumCommaEnd(description, k) - 1), {","}))

\* .str.replace(r"\d+,\d+\.\d+, ", "", regex=True)
RECURSIVE StripBalanceTokens(_, _)
StripBalanceTokens(s, k) ==
    IF k > Len(s) THEN <<>>
    ELSE LET c == NumCommaEnd(s, k) IN
         IF c # 0 /\ HasAt(s, c, <<","," ">>)
         THEN StripBalanceTokens(s, c + 2)
         ELSE <<s[k]>> \o StripBalanceTokens(s, k + 1)

\* .str.replace(r", (\d{1,3}(?:,\d{3})*(?:\.\d{2}))$", "", regex=True)
StripTrailingAmount(s) ==
    LET n == Len(s)
        starts == {k \in 1..n :
                     /\ HasAt(s, k, <<","," ">>)
                     /\ n - (k + 1) >= 4
                     /\ s[n - 2] = "." /\ s[n - 1] \in Digit /\ s[n] \in Digit
                     /\ ThousandsFull(SubSeq(s, k + 2, n - 3))}
    IN  IF starts = {} THEN s
        ELSE SubSeq(s, 1, (CHOOSE x \in starts : \A z \in starts : x <= z) - 1)

MaybankDebitSections(ls) ==
    _remove_sections(
      _remove_sections(
        _remove_sections(
          _remove_sections(ls, <<"M","a","y","b","a","n","k"," ","I","s","l","a","m","i","c"," ","B","e","r","h","a","d">>,
                           <<"P","l","e","a","s","e"," ","n","o","t","i","f","y"," ","u","s"," ","o","f"," ","a","n","y"," ","c","h","a","n","g","e"," ","o","f"," ","a","d","d","r","e","s","s"," ","i","n"," ","w","r","i","t","i","n","g",".">>),
          <<"1","5","t","h"," ","F","l","o","o","r",","," ","T","o","w","e","r"," ","A",","," ","D","a","t","a","r","a","n"," ","M","a","y","b","a","n","k",","," ","1",","," ","J","a","l","a","n"," ","M","a","a","r","o","f",","," ","5","9","0","0","0"," ","K","u","a","l","a"," ","L","u","m","p","u","r">>,
          CJK),
        <<"E","N","T","R","Y"," ","D","A","T","E">>, <<"S","T","A","T","E","M","E","N","T"," ","B","A","L","A","N","C","E">>),
      <<"E","N","D","I","N","G"," ","B","A","L","A","N","C","E"," ",":">>, <<"T","O","T","A","L"," ","D","E","B","I","T"," ",":">>)

\* lines 221-231: read, remove sections, drop noise lines
MaybankDebitFilter ==
    /\ mode = "maybank_debit" /\ pc = "start"
    /\ data' = NoiseFilter(MaybankDebitSections(lines), COMMON_STRINGS_TO_REMOVE)
    /\ i' = 1
    /\ cur' = EmptyDict
    /\ out' = <<>>
    /\ pc' = "scan"
    /\ UNCHANGED <<mode, filename, lines, desc, year_statement, result,
                   start_marker, end_marker, server>>

\* lines 234-243: temp_entry after one line of the scan
MaybankDebitSlots(temp_entry, line) ==
    IF DateYYAt(line, 1)
    THEN [Entry_Date |-> line, Transaction_Description |-> <<>>,
          Transaction_Amount |-> <<>>, Statement_Balance |-> <<>>]
    ELSE IF Get(temp_entry, "Transaction_Amount", <<>>) # <<>>
            /\ Get(temp_entry, "Statement_Balance", <<>>) = <<>>
    THEN Put(temp_entry, "Statement_Balance", strip(line))
    ELSE IF Get(temp_entry, "Transaction_Amount", <<>>) = <<>>
    THEN Put(temp_entry, "Transaction_Amount", strip(line))
    ELSE Put(temp_entry, "Transaction_Description",
             temp_entry["Transaction_Description"] \o strip(line) \o <<","," ">>)

\* line 243 reads temp_entry["Transaction Description"]: KeyError when the
\* entry was created by line 241 and not by an anchor
MaybankDebitLineRaises(temp_entry, line) ==
    /\ ~DateYYAt(line, 1)
    /\ ~(Get(temp_entry, "Transaction_Amount", <<>>) # <<>>
         /\ Get(temp_entry, "Statement_Balance", <<>>) = <<>>)
    /\ Get(temp_entry, "Transaction_Amount", <<>>) # <<>>
    /\ "Transaction_Description" \notin DOMAIN temp_entry

\* lines 233-243: one iteration of the scan
MaybankDebitStep ==
    /\ mode = "maybank_debit" /\ pc = "scan" /\ i <= Len(data)
    /\ LET line == data[i] IN
       IF MaybankDebitLineRaises(cur, line)
       THEN /\ result' = Raise("KeyError")
            /\ pc' = "done"
            /\ UNCHANGED <<cur, out, i>>
       ELSE /\ out' = IF DateYYAt(line, 1) /\ DOMAIN cur # {}
                      THEN Append(out, cur) ELSE out
            /\ cur' = MaybankDebitSlots(cur, line)
            /\ i' = i + 1
            /\ UNCHANGED <<result, pc>>
    /\ UNCHANGED <<mode, filename, lines, data, desc, year_statement,
                   start_marker, end_marker, server>>

\* lines 255-268 for one entry: the record of the returned table
MaybankDebitRow(entry) ==
    LET d0   == rstrip_chars(entry["Transaction_Description"], {",", " "})
        d1   == StripTrailingAmount(StripBalanceTokens(d0, 1))
        type == entry["Transaction_Amount"]
        amt  == entry["Statement_Balance"]
    IN  [Entry_Date |-> ParseDMy(entry["Entry_Date"], "/"),
         Transaction_Type |-> type,
         Transaction_Description |->
             IF type = <<"P","R","O","F","I","T"," ","P","A","I","D">> THEN <<"P","R","O","F","I","T"," ","P","A","I","D">>
             ELSE IF type = <<"D","E","B","I","T"," ","A","D","V","I","C","E">> THEN <<"C","a","r","d"," ","A","n","n","u","a","l"," ","F","e","e">>
             ELSE IF type = <<"C","A","S","H"," ","W","I","T","H","D","R","A","W","A","L">> THEN <<"C","A","S","H"," ","W","I","T","H","D","R","A","W","A","L">>
             ELSE d1,
         Transaction_Amount |-> ParseFloat(RemoveChars(amt, {"+", "-", ","})),
         Statement_Balance |-> StatementBalance2(d0),
         flow |-> _determine_flow(amt)]

\* lines 245-269: seal the last entry, build and normalise the table
MaybankDebitFinish ==
    /\ mode = "maybank_debit" /\ pc = "scan" /\ i > Len(data)
    /\ LET structured_data == IF DOMAIN cur # {} THEN Append(out, cur) ELSE out
           n == Len(structured_data)
       IN  /\ out' = structured_data
           /\ result' =
                IF \E k \in 1..n : "Transaction_Description" \notin DOMAIN structured_data[k]
                THEN Raise("KeyError")
                ELSE IF n = 0 THEN Raise("NoTransactionsExtracted")
                ELSE LET rows == [k \in 1..n |-> MaybankDebitRow(structured_data[k])] IN
                     IF \E k \in 1..n : ~rows[k].Entry_Date.ok
                     THEN Raise("ValueError")
                     ELSE IF \E k \in 1..n : ~rows[k].Transaction_Amount.ok
                     THEN Raise("ValueError")
                     ELSE Table(rows)
    /\ pc' = "done"
    /\ UNCHANGED <<mode, filename, lines, data, i, cur, desc, year_statement,
                   start_marker, end_marker, server>>

----------------------------------------------------------------------------
(* _parse_m2u_debit *)

\* " ".join(parts) / ", ".join(parts)
RECURSIVE Join(_, _)
Join(sep, parts) ==
    IF parts = <<>> THEN <<>>
    ELSE IF Len(parts) = 1 THEN parts[1]
    ELSE parts[1] \o sep \o Join(sep, Tail(parts))

\* line 58: [line.strip() for line in text.split("\n") if line.strip()]
StrippedNonBlank(ls) ==
    SelectSeq([k \in 1..Len(ls) |-> strip(ls[k])], LAMBDA line : line # <<>>)

\* line 65: range(i, min(i + 5, len(lines)))
StatementDateWindow == 5

\* date_pattern.search(line).group(0).split("/")[-1] with r"\d{2}/\d{2}/\d{2}";
\* <<>> when the line holds no such date
YearOfFirstDate(line) ==
    LET starts == {k \in 1..Len(line) : DateYYAt(line, k)} IN
    IF starts = {} THEN <<>>
    ELSE SubSeq(line, Min(starts) + 6, Min(starts) + 7)

\* lines 63-70: the first STATEMENT DATE line and the lines of its window
YearTier1(ls) ==
    LET S == {k \in 1..Len(ls) : In(<<"S","T","A","T","E","M","E","N","T"," ","D","A","T","E">>, ls[k])} IN
    IF S = {} THEN <<>>
    ELSE LET i0 == Min(S)
             hi == IF i0 + StatementDateWindow - 1 < Len(ls)
                   THEN i0 + StatementDateWindow - 1 ELSE Len(ls)
             J  == {j \in i0..hi : YearOfFirstDate(ls[j]) # <<>>}
         IN  IF J = {} THEN <<>> ELSE YearOfFirstDate(ls[Min(J)])

\* lines 72-77: the first date anywhere in the document
YearTier2(ls) ==
    LET J == {j \in 1..Len(ls) : YearOfFirstDate(ls[j]) # <<>>} IN
    IF J = {} THEN <<>> ELSE YearOfFirstDate(ls[Min(J)])

\* mutant: the last two digits of the six-digit run are taken
YearTier3LastTwo(fname) ==
    LET K == {k \in 1..Len(fname) :
                k + 5 <= Len(fname) /\ \A j \in 0..5 : fname[k + j] \in Digit}
    IN  IF K = {} THEN <<>> ELSE SubSeq(fname, Min(K) + 4, Min(K) + 5)

\* lines 79-82: re.search(r"(\d{4})(?=\d{2})", filename).group(1)[2:]
YearTier3(fname) ==
    LET K == {k \in 1..Len(fname) :
                k + 5 <= Len(fname) /\ \A j \in 0..5 : fname[k + j] \in Digit}
    IN  IF K = {} THEN <<>> ELSE SubSeq(fname, Min(K) + 2, Min(K) + 3)

\* mutant: the STATEMENT DATE window is not consulted first
ResolveYearNoWindow(ls, fname) ==
    IF YearTier2(ls) # <<>> THEN YearTier2(ls)
    ELSE YearTier3(fname)

\* mutant: the filename is never consulted
ResolveYearNoFilename(ls, fname) ==
    IF YearTier1(ls) # <<>> THEN YearTier1(ls) ELSE YearTier2(ls)

\* lines 60-82: year_statement, <<>> when no tier yields one
ResolveYear(ls, fname) ==
    IF YearTier1(ls) # <<>> THEN YearTier1(ls)
    ELSE IF YearTier2(ls) # <<>> THEN YearTier2(ls)
    ELSE YearTier3(fname)

\* lines 57-85
M2UResolveYear ==
    /\ mode = "m2u_current_account_debit" /\ pc = "start"
    /\ LET ls == StrippedNonBlank(lines)
           y  == ResolveYear(ls, filename)
       IN  /\ data' = ls
           /\ year_statement' = y
           /\ IF y = <<>>
              THEN result' = Raise("UnresolvedYear") /\ pc' = "done"
              ELSE result' = result /\ pc' = "filter"
    /\ UNCHANGED <<mode, filename, lines, i, cur, desc, out, start_marker, end_marker, server>>

M2UStringsToRemove == {
    <<"U","R","U","S","N","I","A","G","A"," ","A","K","A","U","N","/">>,
    <<"/","A","C","C","O","U","N","T"," ","T","R","A","N","S","A","C","T","I","O","N","S">>,
    <<"T","A","R","I","K","H"," ","M","A","S","U","K">>,
    <<"T","A","R","I","K","H"," ","N","I","L","A","I">>,
    <<"B","U","T","I","R"," ","U","R","U","S","N","I","A","G","A">>,
    <<"J","U","M","L","A","H"," ","U","R","U","S","N","I","A","G","A">>,
    <<"B","A","K","I"," ","P","E","N","Y","A","T","A">>,
    <<"B","E","G","I","N","N","I","N","G"," ","B","A","L","A","N","C","E">> }

M2USections(ls) ==
    _remove_sections(
      _remove_sections(
        _remove_sections(
          _remove_sections(ls, <<"M","a","l","a","y","a","n"," ","B","a","n","k","i","n","g"," ","B","e","r","h","a","d"," ","(","3","8","1","3","-","K",")">>, <<"d","e","n","o","t","e","d"," ","b","y"," ","D","R">>),
          <<"F","C","N">>, <<"P","L","E","A","S","E"," ","B","E"," ","I","N","F","O","R","M","E","D"," ","T","O"," ","C","H","E","C","K"," ","Y","O","U","R"," ","B","A","N","K"," ","A","C","C","O","U","N","T"," ","B","A","L","A","N","C","E","S"," ","R","E","G","U","L","A","R","L","Y">>),
        <<"E","N","T","R","Y"," ","D","A","T","E">>, <<"S","T","A","T","E","M","E","N","T"," ","B","A","L","A","N","C","E">>),
      <<"E","N","D","I","N","G"," ","B","A","L","A","N","C","E"," ",":">>, <<"T","O","T","A","L"," ","C","R","E","D","I","T"," ",":">>)

\* lines 87-115
M2UFilter ==
    /\ mode = "m2u_current_account_debit" /\ pc = "filter"
    /\ data' = NoiseFilter(M2USections(data), M2UStringsToRemove)
    /\ i' = 1
    /\ cur' = EmptyDict
    /\ desc' = <<>>
    /\ out' = <<>>
    /\ pc' = "scan"
    /\ UNCHANGED <<mode, filename, lines, year_statement, result,
                   start_marker, end_marker, server>>

\* date_pattern.match(line) with r"\d{2}/\d{2}"
DateDDMMAt(s, k) ==
    /\ k + 4 <= Len(s)
    /\ \A j \in {0, 1, 3, 4} : s[k + j] \in Digit
    /\ s[k + 2] = "/"

\* end (exclusive) of the greedy (?:,\d{3})* that starts at p
RECURSIVE ThousandGroupsEnd(_, _)
ThousandGroupsEnd(s, p) ==
    IF p + 3 <= Len(s) /\ s[p] = "," /\ \A j \in 1..3 : s[p + j] \in Digit
    THEN ThousandGroupsEnd(s, p + 4)
    ELSE p

\* amount_pattern.findall(line)[0]: the match of the first alternative
\* \d{1,3}(?:,\d{3})*(?:\.\d{2})?(?:[+-])? at the first digit of the line
\* (<<>> when the line has no digit)
FirstAmount(line) ==
    LET D == {k \in 1..Len(line) : line[k] \in Digit} IN
    IF D = {} THEN <<>>
    ELSE LET k  == Min(D)
             r  == DigitRunEnd(line, k)
             a  == IF r > k + 3 THEN k + 3 ELSE r
             b  == ThousandGroupsEnd(line, a)
             c  == IF b + 2 <= Len(line) /\ line[b] = "."
                      /\ line[b + 1] \in Digit /\ line[b + 2] \in Digit
                   THEN b + 3 ELSE b
             d  == IF c <= Len(line) /\ line[c] \in {"+", "-"} THEN c + 1 ELSE c
         IN  SubSeq(line, k, d - 1)

\* lines 120-122 and 148-150: the entry is sealed only with a description
M2USeal(structured_data, current_entry, description_lines) ==
    IF DOMAIN current_entry # {} /\ description_lines # <<>>
    THEN Append(structured_data,
                [current_entry EXCEPT
                    !.Transaction_Description = strip(Join(<<" ">>, description_lines))])
    ELSE structured_data

\* mutant: the amount slot accepts a numeric line without a sign
M2UStepUnsigned ==
    /\ mode = "m2u_current_account_debit" /\ pc = "scan" /\ i <= Len(data)
    /\ LET line       == strip(data[i])
           amount_str == FirstAmount(line)
           is_amount  == amount_str # <<>>
       IN  IF DateDDMMAt(line, 1)
           THEN /\ out' = M2USeal(out, cur, desc)
                /\ cur' = [Entry_Date |-> line, Transaction_Description |-> <<>>,
                           Transaction_Amount |-> Null, Statement_Balance |-> Null]
                /\ desc' = <<>>
           ELSE IF DOMAIN cur = {}
           THEN UNCHANGED <<out, cur, desc>>
           ELSE IF is_amount /\ cur.Transaction_Amount = Null
           THEN /\ cur' = [cur EXCEPT !.Transaction_Amount = amount_str]
                /\ UNCHANGED <<out, desc>>
           ELSE IF is_amount /\ cur.Transaction_Amount # Null
                   /\ cur.Statement_Balance = Null
           THEN /\ cur' = [cur EXCEPT !.Statement_Balance = amount_str]
                /\ UNCHANGED <<out, desc>>
           ELSE /\ desc' = Append(desc, line)
                /\ UNCHANGED <<out, cur>>
    /\ i' = i + 1
    /\ UNCHANGED <<mode, filename, lines, pc, data, year_statement, result,
                   start_marker, end_marker, server>>

\* lines 117-146: one iteration of the scan
M2UStep ==
    /\ mode = "m2u_current_account_debit" /\ pc = "scan" /\ i <= Len(data)
    /\ LET line       == strip(data[i])
           amount_str == FirstAmount(line)
           is_amount  == amount_str # <<>>
       IN  IF DateDDMMAt(line, 1)
           THEN /\ out' = M2USeal(out, cur, desc)
                /\ cur' = [Entry_Date |-> line, Transaction_Description |-> <<>>,
                           Transaction_Amount |-> Null, Statement_Balance |-> Null]
                /\ desc' = <<>>
           ELSE IF DOMAIN cur = {}
           THEN UNCHANGED <<out, cur, desc>>
           ELSE IF is_amount /\ (In(<<"+">>, line) \/ In(<<"-">>, line))
                   /\ cur.Transaction_Amount = Null
           THEN /\ cur' = [cur EXCEPT !.Transaction_Amount = amount_str]
                /\ UNCHANGED <<out, desc>>
           ELSE IF is_amount /\ cur.Transaction_Amount # Null
                   /\ cur.Statement_Balance = Null
           THEN /\ cur' = [cur EXCEPT !.Statement_Balance = amount_str]
                /\ UNCHANGED <<out, desc>>
           ELSE /\ desc' = Append(desc, line)
                /\ UNCHANGED <<out, cur>>
    /\ i' = i + 1
    /\ UNCHANGED <<mode, filename, lines, pc, data, year_statement, result,
                   start_marker, end_marker, server>>

\* lines 156-168 for one entry
M2URow(entry, year) ==
    LET ta == entry.Transaction_Amount
        sb == entry.Statement_Balance
    IN  [Entry_Date |-> ParseDMy(entry.Entry_Date \o <<"/">> \o year, "/"),
         Transaction_Description |-> entry.Transaction_Description,
         Transaction_Amount |->
             IF ta = Null THEN NaN ELSE ParseFloat(RemoveChars(ta, {",", "+", "-"})),
         Statement_Balance |->
             IF sb = Null THEN NaN ELSE ParseFloat(RemoveChars(sb, {",", "+", "-"})),
         flow |-> IF ta = Null THEN "None"
                  ELSE IF In(<<"+">>, ta) THEN "inflow" ELSE "outflow"]

\* line 169: df.dropna(subset=["Transaction Amount"])
M2UDropNullAmounts(rows) == SelectSeq(rows, LAMBDA r : r.Transaction_Amount.ok)

\* lines 148-169
M2UFinish ==
    /\ mode = "m2u_current_account_debit" /\ pc = "scan" /\ i > Len(data)
    /\ LET structured_data == M2USeal(out, cur, desc)
           n == Len(structured_data)
           rows == [k \in 1..n |-> M2URow(structured_data[k], year_statement)]
       IN  /\ out' = structured_data
           /\ result' =
                IF n = 0 THEN Raise("NoTransactionsExtracted")
                ELSE IF \E k \in 1..n : ~rows[k].Entry_Date.ok THEN Raise("ValueError")
                ELSE Table(M2UDropNullAmounts(rows))
    /\ pc' = "done"
    /\ UNCHANGED <<mode, filename, lines, data, i, cur, desc, year_statement,
                   start_marker, end_marker, server>>

----------------------------------------------------------------------------
(* _parse_maybank_credit *)

\* re.findall(r"\d{4}", s): the non-overlapping four-digit matches from k on
RECURSIVE FourDigitRuns(_, _)
FourDigitRuns(s, k) ==
    IF k + 3 > Len(s) THEN <<>>
    ELSE IF \A j \in 0..3 : s[k + j] \in Digit
         THEN <<SubSeq(s, k, k + 3)>> \o FourDigitRuns(s, k + 4)
         ELSE FourDigitRuns(s, k + 1)

\* lines 174-178: the first candidate with 2010 < int(candidate) < 2050, else <<>>
YearFromFilename(fname) ==
    LET c == SelectSeq(FourDigitRuns(fname, 1),
                       LAMBDA x : 2010 < DigitsToInt(x) /\ DigitsToInt(x) < 2050)
    IN  IF c = <<>> THEN <<>> ELSE c[1]

\* values str(pd.Timestamp.now().year) takes while the model runs
CurrentYears == {<<"2","0","2","6">>, <<"2","0","2","7">>}

\* lines 173-186
MaybankCreditFilter ==
    /\ mode = "maybank_credit" /\ pc = "start"
    /\ \E now \in CurrentYears :
          year_statement' = IF YearFromFilename(filename) # <<>>
                            THEN YearFromFilename(filename) ELSE now
    /\ data' = NoiseFilter(lines, COMMON_STRINGS_TO_REMOVE)
    /\ i' = 1
    /\ out' = <<>>
    /\ pc' = "scan"
    /\ UNCHANGED <<mode, filename, lines, cur, desc, result, start_marker, end_marker, server>>

\* "/" in line and len(line) == 5
IsShortDate(line) == In(<<"/">>, line) /\ Len(line) = 5

\* group 1 of re.match(r"^(\d{1,3}(?:,\d{3})*(\.\d{2})?)(CR)?$", s, re.IGNORECASE)
\* with "-" in front when group 3 matched; <<>> when s does not match
CreditAmount(s) ==
    LET n    == Len(s)
        cr   == n >= 2 /\ s[n - 1] \in {"C", "c"} /\ s[n] \in {"R", "r"}
        body == IF cr THEN SubSeq(s, 1, n - 2) ELSE s
        m    == Len(body)
        ok   == \/ ThousandsFull(body)
                \/ /\ m >= 4
                   /\ body[m - 2] = "." /\ body[m - 1] \in Digit /\ body[m] \in Digit
                   /\ ThousandsFull(SubSeq(body, 1, m - 3))
    IN  IF ~ok THEN <<>> ELSE IF cr THEN <<"-">> \o body ELSE body

\* lines 193-205: the inner scan from index j; description, amount and next index
RECURSIVE CreditCollect(_, _, _)
CreditCollect(d, j, description) ==
    IF j > Len(d) \/ IsShortDate(d[j])
    THEN [description |-> description, amount |-> <<>>, next |-> j]
    ELSE IF CreditAmount(strip(d[j])) # <<>>
    THEN [description |-> description, amount |-> CreditAmount(strip(d[j])), next |-> j + 1]
    ELSE CreditCollect(d, j + 1, Append(description, strip(d[j])))

\* lines 187-209: one iteration of the outer loop
MaybankCreditStep ==
    /\ mode = "maybank_credit" /\ pc = "scan" /\ i <= Len(data)
    /\ IF i + 1 <= Len(data) /\ IsShortDate(data[i]) /\ IsShortDate(data[i + 1])
       THEN LET c == CreditCollect(data, i + 2, <<>>) IN
            /\ out' = Append(out, [Posting_Date |-> data[i + 1],
                                   Transaction_Date |-> data[i],
                                   Transaction_Description |-> Join(<<","," ">>, c.description),
                                   Amount |-> c.amount,
                                   Year |-> year_statement])
            /\ i' = c.next
       ELSE /\ i' = i + 1
            /\ out' = out
    /\ UNCHANGED <<mode, filename, lines, pc, data, cur, desc, year_statement, result,
                   start_marker, end_marker, server>>

\* lines 214-217 for one record: "" becomes a missing amount
MaybankCreditRow(rec) ==
    [Year |-> DigitsToInt(rec.Year),
     Posting_Date |-> rec.Posting_Date,
     Transaction_Date |-> rec.Transaction_Date,
     Transaction_Description |-> rec.Transaction_Description,
     Amount |-> IF rec.Amount = <<>> THEN NaN
                ELSE ParseFloat(RemoveChars(rec.Amount, {","}))]

\* lines 211-217
MaybankCreditFinish ==
    /\ mode = "maybank_credit" /\ pc = "scan" /\ i > Len(data)
    /\ result' = IF out = <<>> THEN Raise("NoTransactionsExtracted")
                 ELSE Table([k \in 1..Len(out) |-> MaybankCreditRow(out[k])])
    /\ pc' = "done"
    /\ UNCHANGED <<mode, filename, lines, data, i, cur, desc, out, year_statement,
                   start_marker, end_marker, server>>

----------------------------------------------------------------------------
(* _parse_cimb_debit *)

\* re.match(r"\d{2}/\d{2}/\d{4}", s)
DateYYYYAt(s, k) ==
    /\ k + 9 <= Len(s)
    /\ \A j \in {0, 1, 3, 4, 6, 7, 8, 9} : s[k + j] \in Digit
    /\ s[k + 2] = "/" /\ s[k + 5] = "/"

\* line 278: i += 4
CloseDateSkip == 4

\* lines 273-280: valid_dates_indices
RECURSIVE ValidDatesIndices(_, _)
ValidDatesIndices(d, k) ==
    IF k > Len(d) THEN {}
    ELSE IF DateYYYYAt(d[k], 1)
         THEN {k} \union ValidDatesIndices(d, k + CloseDateSkip)
         ELSE ValidDatesIndices(d, k + 1)

RECURSIVE KeepIndices(_, _, _)
KeepIndices(d, k, K) ==
    IF k > Len(d) THEN <<>>
    ELSE IF k \in K THEN <<d[k]>> \o KeepIndices(d, k + 1, K)
    ELSE KeepIndices(d, k + 1, K)

\* mutant: the scan skips three lines after a date line instead of four
RECURSIVE ValidDatesIndicesSkipThree(_, _)
ValidDatesIndicesSkipThree(d, k) ==
    IF k > Len(d) THEN {}
    ELSE IF DateYYYYAt(d[k], 1)
         THEN {k} \union ValidDatesIndicesSkipThree(d, k + 3)
         ELSE ValidDatesIndicesSkipThree(d, k + 1)

remove_close_dates_skip_three(d) ==
    KeepIndices(d, 1, {k \in 1..Len(d) :
                          k \in ValidDatesIndicesSkipThree(d, 1) \/ ~DateYYYYAt(d[k], 1)})

\* lines 272-281
_remove_close_dates(d) ==
    KeepIndices(d, 1, {k \in 1..Len(d) :
                          k \in ValidDatesIndices(d, 1) \/ ~DateYYYYAt(d[k], 1)})

\* lines 284-286
_is_pure_number(s) == isdigit(RemoveChars(s, {" "}))

\* lines 290-300
CimbFilter ==
    /\ mode = "cimb_debit" /\ pc = "start"
    /\ LET filtered_lines ==
               NoiseFilter(_remove_sections(lines, <<"P","a","g","e"," ","/"," ","H","a","l","a","m","a","n">>, <<"I","S","L","A","M","I","C"," ","B","B","B","-","P","P","P","P">>),
                           COMMON_STRINGS_TO_REMOVE)
           d1 == SelectSeq(_remove_close_dates(filtered_lines),
                           LAMBDA item : ~_is_pure_number(item))
       IN  data' = [k \in 1..Len(d1) |->
                      IF d1[k] = <<"9","9"," ","S","P","E","E","D","M","A","R","T","-","2","1","3","3">> THEN <<"n","i","n","e","t","y","n","i","n","e"," ","s","p","e","e","d"," ","m","a","r","t">>
                      ELSE d1[k]]
    /\ i' = 1
    /\ out' = <<>>
    /\ pc' = "scan"
    /\ UNCHANGED <<mode, filename, lines, cur, desc, year_statement, result,
                   start_marker, end_marker, server>>

\* re.match(r"^-?\d", s)
AmountStart(s) ==
    \/ Len(s) >= 1 /\ s[1] \in Digit
    \/ Len(s) >= 2 /\ s[1] = "-" /\ s[2] \in Digit

\* lines 318-321: index after the description lines, and the lines collected
RECURSIVE CimbDescription(_, _, _)
CimbDescription(d, j, description_lines) ==
    IF j <= Len(d) /\ ~DateYYYYAt(d[j], 1) /\ ~AmountStart(strip(d[j]))
    THEN CimbDescription(d, j + 1,
            IF strip(d[j]) # <<>> THEN Append(description_lines, strip(d[j]))
            ELSE description_lines)
    ELSE [next |-> j, description_lines |-> description_lines]

\* lines 328-331: index of the first non-blank line from j on (Len(d) + 1 if none)
RECURSIVE CimbBalanceIndex(_, _)
CimbBalanceIndex(d, j) ==
    IF j <= Len(d) /\ strip(d[j]) = <<>> THEN CimbBalanceIndex(d, j + 1) ELSE j

\* lines 314-336: the record opened by the date line at index k, and the index
\* the scan continues from
CimbTransaction(d, k) ==
    LET c   == CimbDescription(d, k + 1, <<>>)
        has == c.next <= Len(d) /\ AmountStart(strip(d[c.next]))
        j   == IF has THEN c.next + 1 ELSE c.next
        b   == CimbBalanceIndex(d, j)
    IN  [next |-> b,
         transaction |->
            [Date |-> d[k],
             Transaction_Type_Description |-> Join(<<","," ">>, c.description_lines),
             Amount |-> IF has THEN strip(d[c.next]) ELSE Null,
             Balance_After_Transaction |-> IF b <= Len(d) THEN strip(d[b]) ELSE <<>>,
             Beneficiary_Payee_Name |->
                 IF c.description_lines # <<>> THEN c.description_lines[1] ELSE <<"-">>]]

\* lines 301-338: one iteration of the scan
CimbStep ==
    /\ mode = "cimb_debit" /\ pc = "scan" /\ i <= Len(data)
    /\ IF data[i] = <<"O","P","E","N","I","N","G"," ","B","A","L","A","N","C","E">>
       THEN IF i + 1 > Len(data)
            THEN /\ result' = Raise("IndexError")
                 /\ pc' = "done"
                 /\ i' = i + 1
                 /\ out' = out
            ELSE /\ out' = Append(out,
                      [Date |-> <<"-">>,
                       Transaction_Type_Description |-> <<"O","p","e","n","i","n","g"," ","B","a","l","a","n","c","e">>,
                       Amount |-> strip(data[i + 1]),
                       Balance_After_Transaction |-> <<"-">>,
                       Beneficiary_Payee_Name |-> <<"-">>])
                 /\ i' = i + 2
                 /\ UNCHANGED <<result, pc>>
       ELSE IF DateYYYYAt(data[i], 1)
       THEN /\ out' = Append(out, CimbTransaction(data, i).transaction)
            /\ i' = CimbTransaction(data, i).next
            /\ UNCHANGED <<result, pc>>
       ELSE /\ i' = i + 1
            /\ UNCHANGED <<out, result, pc>>
    /\ UNCHANGED <<mode, filename, lines, data, cur, desc, year_statement,
                   start_marker, end_marker, server>>

\* str.split(): the whitespace-separated words of s
RECURSIVE Words(_)
Words(s) ==
    LET t == lstrip(s)
        W == {k \in 1..Len(t) : t[k] \in WS}
    IN  IF t = <<>> THEN <<>>
        ELSE IF W = {} THEN <<t>>
        ELSE <<SubSeq(t, 1, Min(W) - 1)>> \o Words(SubSeq(t, Min(W) + 1, Len(t)))

\* df["Date"].str.extract(r"(\S+)\s(.*)"): the two groups, Null when no match
DateAndType(s) ==
    LET t == lstrip(s)
        W == {k \in 1..Len(t) : t[k] \in WS}
    IN  IF t = <<>> \/ W = {} THEN <<Null, Null>>
        ELSE <<SubSeq(t, 1, Min(W) - 1), SubSeq(t, Min(W) + 1, Len(t))>>

\* lines 349-351: pd.to_numeric(..., errors="coerce") of both balances
CimbOutput(prev_balance, curr_balance) ==
    IF Gt(ParseFloat(curr_balance), ParseFloat(prev_balance))
    THEN "deposit" ELSE "withdrawal"

\* lines 343-356 for record k of the frame
CimbRow(recs, k) ==
    LET r     == recs[k]
        w     == Words(r.Transaction_Type_Description)
        desc2 == Join(<<" ">>, IF w = <<>> THEN <<>> ELSE Tail(w))
        desc1 == desc2 \o <<","," ">> \o r.Beneficiary_Payee_Name
    IN  [Date |-> DateAndType(r.Date)[1],
         Transaction_Type |-> DateAndType(r.Date)[2],
         Transaction_Description |->
             IF desc1 = <<"B","a","l","a","n","c","e",","," ","-">> THEN <<"O","p","e","n","i","n","g"," ","B","a","l","a","n","c","e">> ELSE desc1,
         Transaction_Description2 |->
             IF desc2 = <<"B","a","l","a","n","c","e">> THEN <<"O","p","e","n","i","n","g"," ","B","a","l","a","n","c","e">> ELSE desc2,
         Amount |-> r.Amount,
         Balance_After_Transaction |-> r.Balance_After_Transaction,
         output |-> IF k = 1 THEN "nan"
                    ELSE CimbOutput(recs[k - 1].Balance_After_Transaction,
                                    r.Balance_After_Transaction)]

\* lines 340-356; the frame has no "output" column when the loop of line 348 never
\* runs and no "Amount" column when no record has the key: line 356 raises KeyError
CimbFinish ==
    /\ mode = "cimb_debit" /\ pc = "scan" /\ i > Len(data)
    /\ result' =
         IF out = <<>> THEN Raise("NoTransactionsExtracted")
         ELSE IF Len(out) = 1 THEN Raise("KeyError")
         ELSE IF \A k \in 1..Len(out) : out[k].Amount = Null THEN Raise("KeyError")
         ELSE Table([k \in 1..Len(out) |-> CimbRow(out, k)])
    /\ pc' = "done"
    /\ UNCHANGED <<mode, filename, lines, data, i, cur, desc, out, year_statement,
                   start_marker, end_marker, server>>

----------------------------------------------------------------------------
(* _parse_rhb_flex *)

\* group 1 of re.match(r"(\d{2}-\d{2}-\d{4}|\d{2}-\d{2}-\d{2})", line), else <<>>
RhbDateMatch(line) ==
    IF /\ Len(line) >= 8
       /\ \A k \in {1, 2, 4, 5, 7, 8} : line[k] \in Digit
       /\ line[3] = "-" /\ line[6] = "-"
    THEN IF Len(line) >= 10 /\ line[9] \in Digit /\ line[10] \in Digit
         THEN SubSeq(line, 1, 10)
         ELSE SubSeq(line, 1, 8)
    ELSE <<>>

\* lines 360-362
RhbStart ==
    /\ mode = "rhb_flex" /\ pc = "start"
    /\ data' = lines
    /\ i' = 1
    /\ cur' = EmptyDict
    /\ out' = <<>>
    /\ pc' = "scan"
    /\ UNCHANGED <<mode, filename, lines, desc, year_statement, result,
                   start_marker, end_marker, server>>

\* lines 364-372: one raw line
RhbStep ==
    /\ mode = "rhb_flex" /\ pc = "scan" /\ i <= Len(data)
    /\ LET line == strip(data[i]) IN
       IF RhbDateMatch(line) # <<>>
       THEN /\ out' = IF DOMAIN cur # {} THEN Append(out, cur) ELSE out
            /\ cur' = [Date |-> RhbDateMatch(line), Lines |-> <<>>]
       ELSE IF DOMAIN cur # {}
       THEN /\ cur' = [cur EXCEPT !.Lines = Append(@, line)]
            /\ out' = out
       ELSE UNCHANGED <<cur, out>>
    /\ i' = i + 1
    /\ UNCHANGED <<mode, filename, lines, pc, data, desc, year_statement, result,
                   start_marker, end_marker, server>>

\* lines 378-393
transaction_types == <<
    <<"D","U","I","T","N","O","W"," ","Q","R"," ","P","O","S"," ","C","R">>,
    <<"I","N","W","A","R","D"," ","I","B","G">>,
    <<"R","F","L","X">>,
    <<"D","U","I","T","N","O","W">>,
    <<"R","P","P"," ","I","N","W","A","R","D"," ","I","N","S","T"," ","T","R","F">>,
    <<"L","O","C","A","L"," ","C","H","Q">>,
    <<"R","E","F","L","E","X","-","F","U","N","D","S"," ","T","F","R"," ","D","R">>,
    <<"M","B"," ","F","U","N","D">>,
    <<"C","A","S","H"," ","D","E","P","O","S","I","T">>,
    <<"R","P","P"," ","I","N","W","A","R","D">>,
    <<"R","E","F","L","E","X","-","F","U","N","D","S"," ","T","F","R">>,
    <<"R","E","F","L","E","X","-"," ","F","U","N","D","S"," ","T","F","R"," ","D","R">>,
    <<"R","F","L","X"," ","I","N","S","T","A","N","T"," ","T","R","F"," ","D","R">>,
    <<"R","F","L","X"," ","I","N","S","T","A","N","T"," ","T","R","F"," ","S","C">> >>

\* index after the blanks that start at k
RECURSIVE SkipWS(_, _)
SkipWS(s, k) == IF k <= Len(s) /\ s[k] \in WS THEN SkipWS(s, k + 1) ELSE k

\* start of the maximal run of [\d,] that ends just before q
RECURSIVE NumRunStart(_, _)
NumRunStart(s, q) ==
    IF q > 1 /\ s[q - 1] \in Digit \union {","} THEN NumRunStart(s, q - 1) ELSE q

\* index after the maximal run of [\d,] that starts at k
RECURSIVE NumRunEnd(_, _)
NumRunEnd(s, k) ==
    IF k <= Len(s) /\ s[k] \in Digit \union {","} THEN NumRunEnd(s, k + 1) ELSE k

\* re.search(r"([\d,]+\.\d{2})\s*(DR|CR|\+|\-)?$", s): start of the match (0 when
\* there is none), group 1 and group 2 (<<>> for None)
RhbAmountMatch(s) ==
    LET n == Len(s)
        Q == {q \in 2..(n - 2) :
                /\ s[q] = "." /\ s[q + 1] \in Digit /\ s[q + 2] \in Digit
                /\ s[q - 1] \in Digit \union {","}
                /\ SubSeq(s, SkipWS(s, q + 3), n) \in {<<>>, <<"D","R">>, <<"C","R">>, <<"+">>, <<"-">>}}
    IN  IF Q = {} THEN [start |-> 0, amount |-> <<>>, sign |-> <<>>]
        ELSE LET q == Min(Q) IN
             [start |-> NumRunStart(s, q),
              amount |-> SubSeq(s, NumRunStart(s, q), q + 2),
              sign |-> SubSeq(s, SkipWS(s, q + 3), n)]

\* s.replace(t, "")
RECURSIVE ReplaceAll(_, _)
ReplaceAll(s, t) ==
    IF s = <<>> THEN <<>>
    ELSE IF t # <<>> /\ HasAt(s, 1, t) THEN ReplaceAll(SubSeq(s, Len(t) + 1, Len(s)), t)
    ELSE <<Head(s)>> \o ReplaceAll(Tail(s), t)

\* lines 411-415: index of the first label found in the text, 0 when none
RhbTypeIndex(text) ==
    LET T == {k \in 1..Len(transaction_types) : In(transaction_types[k], text)} IN
    IF T = {} THEN 0 ELSE Min(T)

\* lines 396-425: the row computed from one line group
RhbRow(txn) ==
    LET c0  == strip(Join(<<" ">>, txn.Lines))
        am  == RhbAmountMatch(c0)
        amt == RemoveChars(am.amount, {","})
        c1  == IF am.start = 0 THEN c0 ELSE strip(SubSeq(c0, 1, am.start - 1))
        t   == RhbTypeIndex(c1)
    IN  [Date |-> txn.Date,
         Description |-> IF t = 0 THEN <<>> ELSE transaction_types[t],
         Sender_Beneficiary |->
             IF t = 0 THEN c1 ELSE strip(ReplaceAll(c1, transaction_types[t])),
         Amount_DR |-> IF am.start # 0 /\ am.sign \in {<<"D","R">>, <<"-">>} THEN amt ELSE <<>>,
         Amount_CR |-> IF am.start # 0 /\ am.sign \in {<<"C","R">>, <<"+">>, <<>>} THEN amt ELSE <<>>]

UpperCase == <<"A","B","C","D","E","F","G","H","I","J","K","L","M","N","O","P","Q","R","S","T","U","V","W","X","Y","Z">>

LowerCase == <<"a","b","c","d","e","f","g","h","i","j","k","l","m","n","o","p","q","r","s","t","u","v","w","x","y","z">>

Letter == {UpperCase[k] : k \in 1..26} \union {LowerCase[k] : k \in 1..26}

\* c.lower()
Lower(c) ==
    IF \E k \in 1..26 : UpperCase[k] = c
    THEN LowerCase[CHOOSE k \in 1..26 : UpperCase[k] = c]
    ELSE c

LowerStr(s) == [k \in 1..Len(s) |-> Lower(s[k])]

\* Timestamp.min.year and Timestamp.max.year of pandas' nanosecond timestamps
\* are 1677 and 2262; the whole years in between are representable
MinTimestampYear == 1678

MaxTimestampYear == 2261

\* lines 431-432: %d-%m-%Y first, %d-%m-%y for what it does not parse, then
\* strftime("%d-%m-%y"); Null for NaT
RhbDate(s) ==
    IF Len(s) = 10
    THEN LET d == DigitsToInt(SubSeq(s, 1, 2))
             m == DigitsToInt(SubSeq(s, 4, 5))
             y == DigitsToInt(SubSeq(s, 7, 10))
         IN  IF /\ m \in 1..12 /\ d >= 1 /\ d <= DaysInMonth(m, y)
                /\ y >= MinTimestampYear /\ y <= MaxTimestampYear
             THEN SubSeq(s, 1, 6) \o SubSeq(s, 9, 10)
             ELSE Null
    ELSE IF ParseDMy(s, "-").ok THEN s ELSE Null

\* re.sub(r"06/\s*\d+\s*/\s*-\s*", "", s) when lead is "06/" and min_digits 1;
\* re.sub(r"/\s*\d{3,}\s*/\s*-\s*", "", s) when lead is "/" and min_digits 3
SlashNumberEnd(s, k, lead, min_digits) ==
    LET a == SkipWS(s, k + Len(lead))
        b == DigitRunEnd(s, a)
        c == SkipWS(s, b)
        d == SkipWS(s, c + 1)
    IN  IF /\ HasAt(s, k, lead)
           /\ b - a >= min_digits
           /\ c <= Len(s) /\ s[c] = "/"
           /\ d <= Len(s) /\ s[d] = "-"
        THEN SkipWS(s, d + 1) ELSE 0

RECURSIVE SubSlashNumber(_, _, _, _)
SubSlashNumber(s, k, lead, min_digits) ==
    IF k > Len(s) THEN <<>>
    ELSE LET e == SlashNumberEnd(s, k, lead, min_digits) IN
         IF e # 0 THEN SubSlashNumber(s, e, lead, min_digits)
         ELSE <<s[k]>> \o SubSlashNumber(s, k + 1, lead, min_digits)

\* re.sub(literal + ".*", "", s, flags=re.IGNORECASE)
CutFrom(s, literal) ==
    LET K == {k \in 1..Len(s) : HasAt(LowerStr(s), k, LowerStr(literal))} IN
    IF K = {} THEN s ELSE SubSeq(s, 1, Min(K) - 1)

\* lines 460-473, the patterns of the form literal.*
unwanted_tails == <<
    <<"w","w","w",".","r","h","b","g","r","o","u","p",".","c","o","m">>,
    <<"F","o","r"," ","A","n","y"," ","E","n","q","u","i","r","i","e","s">>,
    <<"D","a","t","e"," ","B","r","a","n","c","h"," ","D","e","s","c","r","i","p","t","i","o","n">>,
    <<"R","e","f","e","r","e","n","c","e"," ","1"," ","/"," ","R","e","c","i","p","i","e","n","t","'","s"," ","R","e","f","e","r","e","n","c","e">>,
    <<"R","e","f","e","r","e","n","c","e"," ","2"," ","/"," ","O","t","h","e","r"," ","P","a","y","m","e","n","t"," ","D","e","t","a","i","l","s">>,
    <<"R","e","f","N","u","m">>,
    <<"A","m","o","u","n","t"," ","(","D","R",")">>,
    <<"A","m","o","u","n","t"," ","(","C","R",")">>,
    <<"B","a","l","a","n","c","e"," ","S","e","n","d","e","r","'","s"," ","/"," ","B","e","n","e","f","i","c","i","a","r","y","'","s"," ","N","a","m","e">>,
    <<"S","e","n","d","e","r","'","s"," ","/"," ","B","e","n","e","f","i","c","i","a","r","y","'","s"," ","N","a","m","e">> >>

RECURSIVE CutTails(_, _)
CutTails(s, k) ==
    IF k > Len(unwanted_tails) THEN s
    ELSE CutTails(CutFrom(s, unwanted_tails[k]), k + 1)

\* lines 450-457: the token is discarded
DiscardedToken(token) ==
    \/ /\ Len(token) >= 8
       /\ \E k \in 1..Len(token) : token[k] \in Letter
       /\ \E k \in 1..Len(token) : token[k] \in Digit
    \/ Len(token) = 3 /\ isdigit(token)
    \/ Len(token) >= 8 /\ isdigit(token)

\* lines 434-477: balance, sender/beneficiary, recipient reference; line 439 is
\* re.match(r"^([\d,]+\.\d{2}\+)\s*(.*)", s)
process_sender_beneficiary(s0) ==
    LET s == strip(s0)
        r == NumRunEnd(s, 1)
        matched == /\ r > 1 /\ r + 3 <= Len(s)
                   /\ s[r] = "." /\ s[r + 1] \in Digit /\ s[r + 2] \in Digit
                   /\ s[r + 3] = "+"
    IN  IF ~matched
        THEN [Balance |-> <<>>, Sender_Beneficiary |-> s, Recipient_Reference |-> <<>>]
        ELSE LET words == Words(SubSeq(s, r + 4, Len(s)))
                 n     == Len(words)
                 tokens == SelectSeq(SubSeq(words, 4, n), LAMBDA t : ~DiscardedToken(t))
                 ref0  == Join(<<" ">>, tokens)
                 ref1  == SubSlashNumber(ref0, 1, <<"0","6","/">>, 1)
                 ref2  == SubSlashNumber(ref1, 1, <<"/">>, 3)
                 ref3  == CutTails(ref2, 1)
             IN  [Balance |-> SubSeq(s, 1, r + 3),
                  Sender_Beneficiary |-> Join(<<" ">>, SubSeq(words, 1, IF n < 3 THEN n ELSE 3)),
                  Recipient_Reference |-> Join(<<" ">>, Words(ref3))]

\* mutant: lines 481-483 left out, nothing is shifted
RhbFinalRowUnshifted(rows, k) ==
    LET p == process_sender_beneficiary(rows[k].Sender_Beneficiary) IN
    [Date |-> RhbDate(rows[k].Date),
     Description |-> rows[k].Description,
     Sender_Beneficiary |-> p.Sender_Beneficiary,
     Balance |-> p.Balance,
     Recipient_Reference |-> p.Recipient_Reference,
     Amount_DR |-> rows[k].Amount_DR,
     Amount_CR |-> rows[k].Amount_CR]

\* lines 430-483 for row k: the date and the fields of its own line group, and the
\* three columns shifted down by one row (shift(1) leaves row 0 empty)
RhbFinalRow(rows, k) ==
    LET p == process_sender_beneficiary(rows[k].Sender_Beneficiary) IN
    [Date |-> RhbDate(rows[k].Date),
     Description |-> rows[k].Description,
     Sender_Beneficiary |-> p.Sender_Beneficiary,
     Balance |-> p.Balance,
     Recipient_Reference |->
         IF k = 1 THEN Null
         ELSE process_sender_beneficiary(rows[k - 1].Sender_Beneficiary).Recipient_Reference,
     Amount_DR |-> IF k = 1 THEN Null ELSE rows[k - 1].Amount_DR,
     Amount_CR |-> IF k = 1 THEN Null ELSE rows[k - 1].Amount_CR]

\* lines 374-483
RhbFinish ==
    /\ mode = "rhb_flex" /\ pc = "scan" /\ i > Len(data)
    /\ LET transactions == IF DOMAIN cur # {} THEN Append(out, cur) ELSE out
           rows == [k \in 1..Len(transactions) |-> RhbRow(transactions[k])]
       IN  /\ out' = transactions
           /\ result' = IF rows = <<>> THEN Raise("NoTransactionsExtracted")
                        ELSE Table([k \in 1..Len(rows) |-> RhbFinalRow(rows, k)])
    /\ pc' = "done"
    /\ UNCHANGED <<mode, filename, lines, data, i, cur, desc, year_statement,
                   start_marker, end_marker, server>>

----------------------------------------------------------------------------
(* Inputs and specifications *)

\* no request is being served
ServerIdle ==
    /\ server_pc = "idle"
    /\ response_format = "csv"
    /\ files = <<>>
    /\ uploaded = 1
    /\ all_dataframes = <<>>
    /\ errors = <<>>
    /\ examined = <<>>
    /\ response = [status |-> 0, kind |-> "none"]

DefaultFilename == <<"s","t","a","t","e","m","e","n","t",".","p","d","f">>

MaxSectionLines == 5

SectionVocabulary == {
    <<"E","N","T","R","Y"," ","D","A","T","E">>,
    <<"S","T","A","T","E","M","E","N","T"," ","B","A","L","A","N","C","E">>,
    <<"E","N","T","R","Y"," ","D","A","T","E"," ","S","T","A","T","E","M","E","N","T"," ","B","A","L","A","N","C","E">>,
    <<"T","O","T","A","L"," ","D","E","B","I","T"," ",":"," ","2","0",".","0","0">>,
    <<"S","A","L","A","R","Y"," ","C","R","E","D","I","T">>,
    <<"0","1","/","0","3","/","2","1">> }

SectionMarkerPairs == {
    <<<<"E","N","T","R","Y"," ","D","A","T","E">>, <<"S","T","A","T","E","M","E","N","T"," ","B","A","L","A","N","C","E">>>>,
    <<<<"E","N","D","I","N","G"," ","B","A","L","A","N","C","E"," ",":">>, <<"T","O","T","A","L"," ","D","E","B","I","T"," ",":">>>> }

\* a call _remove_sections(lines, start_marker, end_marker) about to be made
InitSections ==
    /\ mode = "remove_sections"
    /\ pc = "start"
    /\ lines \in SeqsOf(SectionVocabulary, 0, MaxSectionLines)
    /\ \E mp \in SectionMarkerPairs : start_marker = mp[1] /\ end_marker = mp[2]
    /\ filename = DefaultFilename
    /\ data = <<>> /\ i = 1 /\ cur = EmptyDict /\ desc = <<>> /\ out = <<>>
    /\ year_statement = <<>>
    /\ result = NoResult
    /\ ServerIdle

\* lines 33-45
RemoveSections ==
    /\ mode = "remove_sections" /\ pc = "start"
    /\ data' = _remove_sections(lines, start_marker, end_marker)
    /\ pc' = "done"
    /\ UNCHANGED <<mode, filename, lines, i, cur, desc, out, year_statement,
                   result, start_marker, end_marker, server>>

SpecSections == InitSections /\ [][RemoveSections]_vars

MaxCloseLines == 6

CloseDatesVocabulary == {
    <<"0","1","/","0","3","/","2","0","2","1">>,
    <<"0","2","/","0","3","/","2","0","2","1"," ","T","R","A","N","S","F","E","R">>,
    <<"T","R","A","N","S","F","E","R"," ","A","C","M","E">> }

\* a call _remove_close_dates(lines) about to be made
InitCloseDates ==
    /\ mode = "remove_close_dates"
    /\ pc = "start"
    /\ lines \in SeqsOf(CloseDatesVocabulary, 0, MaxCloseLines)
    /\ filename = DefaultFilename
    /\ data = <<>> /\ i = 1 /\ cur = EmptyDict /\ desc = <<>> /\ out = <<>>
    /\ year_statement = <<>>
    /\ result = NoResult
    /\ start_marker = <<>> /\ end_marker = <<>>
    /\ ServerIdle

\* lines 272-281
RemoveCloseDates ==
    /\ mode = "remove_close_dates" /\ pc = "start"
    /\ data' = _remove_close_dates(lines)
    /\ pc' = "done"
    /\ UNCHANGED <<mode, filename, lines, i, cur, desc, out, year_statement,
                   result, start_marker, end_marker, server>>

SpecCloseDates == InitCloseDates /\ [][RemoveCloseDates]_vars

MaxLines == 4

MaybankDebitVocabulary == {
    <<"0","1","/","0","3","/","2","1">>,
    <<"1","5","0",".","0","0","+">>,
    <<"1",",","2","0","0",".","0","0">>,
    <<"S","A","L","A","R","Y"," ","C","R","E","D","I","T">>,
    <<>>,
    <<"B","A","K","I"," ","P","E","N","Y","A","T","A">> }

InitHandler(m, vocabulary, filenames) ==
    /\ mode = m
    /\ pc = "start"
    /\ lines \in SeqsOf(vocabulary, 1, MaxLines)
    /\ filename \in filenames
    /\ data = <<>> /\ i = 1 /\ cur = EmptyDict /\ desc = <<>> /\ out = <<>>
    /\ year_statement = <<>>
    /\ result = NoResult
    /\ start_marker = <<>> /\ end_marker = <<>>
    /\ ServerIdle

InitMaybankDebit == InitHandler("maybank_debit", MaybankDebitVocabulary, {DefaultFilename})

NextMaybankDebit == MaybankDebitFilter \/ MaybankDebitStep \/ MaybankDebitFinish

SpecMaybankDebit == InitMaybankDebit /\ [][NextMaybankDebit]_vars

MaxYearLines == 7

YearVocabulary == {
    <<"S","T","A","T","E","M","E","N","T"," ","D","A","T","E">>,
    <<"S","T","A","T","E","M","E","N","T"," ","D","A","T","E"," ",":"," ","3","1","/","0","3","/","2","1">>,
    <<"1","5","/","0","2","/","2","0">>,
    <<"T","R","A","N","S","F","E","R"," ","0","5","/","0","1","/","1","9">> }

InitYear ==
    /\ mode = "m2u_current_account_debit"
    /\ pc = "start"
    /\ lines \in SeqsOf(YearVocabulary, 1, MaxYearLines)
    /\ filename = DefaultFilename
    /\ data = <<>> /\ i = 1 /\ cur = EmptyDict /\ desc = <<>> /\ out = <<>>
    /\ year_statement = <<>>
    /\ result = NoResult
    /\ start_marker = <<>> /\ end_marker = <<>>
    /\ ServerIdle

NextM2U == M2UResolveYear \/ M2UFilter \/ M2UStep \/ M2UFinish

SpecYear == InitYear /\ [][NextM2U]_vars

M2UVocabulary == {
    <<"S","T","A","T","E","M","E","N","T"," ","D","A","T","E">>,
    <<"S","T","A","T","E","M","E","N","T"," ","D","A","T","E"," ",":"," ","3","1","/","0","3","/","2","1">>,
    <<"1","5","/","0","3">>,
    <<"2","0",".","0","0","-">>,
    <<"1",",","1","8","0",".","0","0">>,
    <<"T","R","A","N","S","F","E","R">>,
    <<"1","5","/","0","2","/","2","0">> }

M2UFilenames == {DefaultFilename, <<"m","2","u","_","2","0","2","2","0","3",".","p","d","f">>, <<"m","2","u","_","2","0","2","2",".","p","d","f">>}

InitM2U == InitHandler("m2u_current_account_debit", M2UVocabulary, M2UFilenames)

SpecM2U == InitM2U /\ [][NextM2U]_vars

MaybankCreditVocabulary == {
    <<"0","1","/","0","3">>,
    <<"0","2","/","0","3">>,
    <<"S","H","O","P">>,
    <<"1",",","0","1","0",".","0","0">>,
    <<"5",".","0","0","C","R">>,
    <<>> }

InitMaybankCredit ==
    InitHandler("maybank_credit", MaybankCreditVocabulary, {DefaultFilename, <<"c","a","r","d","_","2","0","2","1",".","p","d","f">>})

NextMaybankCredit == MaybankCreditFilter \/ MaybankCreditStep \/ MaybankCreditFinish

CimbVocabulary == {
    <<"O","P","E","N","I","N","G"," ","B","A","L","A","N","C","E">>,
    <<"5","0","0",".","0","0">>,
    <<"0","1","/","0","3","/","2","0","2","1">>,
    <<"T","R","A","N","S","F","E","R"," ","A","C","M","E">>,
    <<"-","2","0",".","0","0">>,
    <<>> }

InitCimb == InitHandler("cimb_debit", CimbVocabulary, {DefaultFilename})

NextCimb == CimbFilter \/ CimbStep \/ CimbFinish

\* line groups of a CIMB statement: the opening balance, and transactions of
\* date, description, amount and balance
CimbGroups ==
    {<<<<"O","P","E","N","I","N","G"," ","B","A","L","A","N","C","E">>, <<"5","0","0",".","0","0">>>>,
     <<<<"0","1","/","0","3","/","2","0","2","1">>, <<"T","R","A","N","S","F","E","R"," ","A","C","M","E">>, <<"-","2","0",".","0","0">>>>}
    \union
    {<<<<"0","1","/","0","3","/","2","0","2","1">>, <<"T","R","A","N","S","F","E","R"," ","A","C","M","E">>, <<"2","0",".","0","0">>, b>> :
        b \in {<<"1","0","0",".","0","0">>, <<"1","5","0",".","0","0">>, <<"1","2","0",".","0","0">>, <<"1",",","2","0","0",".","0","0">>}}

MaxCimbGroups == 3

RECURSIVE Flatten(_)
Flatten(groups) == IF groups = <<>> THEN <<>> ELSE Head(groups) \o Flatten(Tail(groups))

InitCimbGroups ==
    /\ mode = "cimb_debit"
    /\ pc = "start"
    /\ \E gs \in SeqsOf(CimbGroups, 1, MaxCimbGroups) : lines = Flatten(gs)
    /\ filename = DefaultFilename
    /\ data = <<>> /\ i = 1 /\ cur = EmptyDict /\ desc = <<>> /\ out = <<>>
    /\ year_statement = <<>>
    /\ result = NoResult
    /\ start_marker = <<>> /\ end_marker = <<>>
    /\ ServerIdle

SpecCimb == InitCimbGroups /\ [][NextCimb]_vars

MaxCimbLines == 5

\* documents of up to MaxCimbLines lines over the CIMB vocabulary
InitCimbLines ==
    /\ mode = "cimb_debit"
    /\ pc = "start"
    /\ lines \in SeqsOf(CimbVocabulary, 0, MaxCimbLines)
    /\ filename = DefaultFilename
    /\ data = <<>> /\ i = 1 /\ cur = EmptyDict /\ desc = <<>> /\ out = <<>>
    /\ year_statement = <<>>
    /\ result = NoResult
    /\ start_marker = <<>> /\ end_marker = <<>>
    /\ ServerIdle

SpecCimbLines == InitCimbLines /\ [][NextCimb]_vars

RhbVocabulary == {
    <<"0","1","-","0","3","-","2","0","2","1">>,
    <<"3","1","-","0","2","-","2","0","2","1">>,
    <<"0","2","-","0","3","-","2","1"," ","D","U","I","T","N","O","W">>,
    <<"R","F","L","X"," ","I","N","S","T","A","N","T"," ","T","R","F"," ","D","R">>,
    <<"1",",","1","8","0",".","0","0","+"," ","A","C","M","E"," ","S","D","N"," ","B","H","D"," ","R","E","F"," ","1","2","3"," ","R","E","N","T">>,
    <<"2","0",".","0","0"," ","D","R">>,
    <<"5",".","0","0">> }

InitRhb == InitHandler("rhb_flex", RhbVocabulary, {DefaultFilename})

NextRhb == RhbStart \/ RhbStep \/ RhbFinish

SpecRhb == InitRhb /\ [][NextRhb]_vars

MaxLabelRecords == 2

\* the line after the date line of an RHB record: a label of the list alone, or
\* a label between a name and an amount
RhbLabelTexts ==
    {transaction_types[k] : k \in 1..Len(transaction_types)}
    \union
    {<<"A","C","M","E"," ">> \o transaction_types[k] \o <<" ","2","0",".","0","0"," ","D","R">> : k \in 1..Len(transaction_types)}

\* documents of up to MaxLabelRecords records, each a date line and a label line
InitRhbLabels ==
    /\ mode = "rhb_flex"
    /\ pc = "start"
    /\ \E ts \in SeqsOf(RhbLabelTexts, 1, MaxLabelRecords) :
          lines = Flatten([k \in 1..Len(ts) |-> <<<<"0","1","-","0","3","-","2","0","2","1">>, ts[k]>>])
    /\ filename = DefaultFilename
    /\ data = <<>> /\ i = 1 /\ cur = EmptyDict /\ desc = <<>> /\ out = <<>>
    /\ year_statement = <<>>
    /\ result = NoResult
    /\ start_marker = <<>> /\ end_marker = <<>>
    /\ ServerIdle

SpecRhbLabels == InitRhbLabels /\ [][NextRhb]_vars

\* lines 486-492
MODE_HANDLERS ==
    {"maybank_debit", "maybank_credit", "cimb_debit", "m2u_current_account_debit", "rhb_flex"}

\* a document handed to the handler MODE_HANDLERS[mode]
Init == InitMaybankDebit \/ InitMaybankCredit \/ InitCimb \/ InitM2U \/ InitRhb

Next == NextMaybankDebit \/ NextMaybankCredit \/ NextCimb \/ NextM2U \/ NextRhb

Spec == Init /\ [][Next]_vars

----------------------------------------------------------------------------
(* process_pdfs *)

\* s.endswith(suffix)
EndsWith(s, suffix) ==
    Len(s) >= Len(suffix) /\ SubSeq(s, Len(s) - Len(suffix) + 1, Len(s)) = suffix

\* str(n) of a natural number
RECURSIVE IntToDigits(_)
IntToDigits(n) ==
    IF n < 10 THEN <<<<"0","1","2","3","4","5","6","7","8","9">>[n + 1]>>
    ELSE IntToDigits(n \div 10) \o <<<<"0","1","2","3","4","5","6","7","8","9">>[(n % 10) + 1]>>

\* str(n).zfill(width)
RECURSIVE ZeroPad(_, _)
ZeroPad(digits, width) ==
    IF Len(digits) >= width THEN digits ELSE ZeroPad(<<"0">> \o digits, width)

\* repr(x) of a float with a short decimal expansion: 1200.0, 20.5, -5.0
FormatFloat(f) ==
    LET mag == IF f.m < 0 THEN 0 - f.m ELSE f.m
        ip  == IntToDigits(mag \div Pow10(f.e))
        fp  == IF f.e = 0 THEN <<"0">> ELSE ZeroPad(IntToDigits(mag % Pow10(f.e)), f.e)
    IN  (IF f.m < 0 THEN <<"-">> ELSE <<>>) \o ip \o <<".">> \o fp

\* date.isoformat() / str(date): YYYY-MM-DD
FormatDate(d) ==
    ZeroPad(IntToDigits(d.y), 4) \o <<"-">> \o ZeroPad(IntToDigits(d.m), 2)
        \o <<"-">> \o ZeroPad(IntToDigits(d.d), 2)

\* the text of the labels the handlers write into flow / output columns
LabelText(label) ==
    CASE label = "deposit" -> <<"d","e","p","o","s","i","t">>
      [] label = "withdrawal" -> <<"w","i","t","h","d","r","a","w","a","l">>
      [] label = "unknown" -> <<"u","n","k","n","o","w","n">>
      [] label = "inflow" -> <<"i","n","f","l","o","w">>
      [] label = "outflow" -> <<"o","u","t","f","l","o","w">>
      [] OTHER -> Null

\* the key of MODE_HANDLERS as text
ModeText(m) ==
    CASE m = "maybank_debit" -> <<"m","a","y","b","a","n","k","_","d","e","b","i","t">>
      [] m = "maybank_credit" -> <<"m","a","y","b","a","n","k","_","c","r","e","d","i","t">>
      [] m = "cimb_debit" -> <<"c","i","m","b","_","d","e","b","i","t">>
      [] m = "m2u_current_account_debit" -> <<"m","2","u","_","c","u","r","r","e","n","t","_","a","c","c","o","u","n","t","_","d","e","b","i","t">>
      [] m = "rhb_flex" -> <<"r","h","b","_","f","l","e","x">>

\* the columns of the table a handler returns, in frame order: header, the field
\* of the model's row, and the kind of value the column holds ("date" is a
\* datetime.date, "timestamp" a pd.Timestamp, "label" a flow/output label that
\* may be missing, "text" a string that may be missing)
Columns(m) ==
    CASE m = "maybank_debit" -> <<
            [header |-> <<"E","n","t","r","y"," ","D","a","t","e">>, field |-> "Entry_Date", kind |-> "date"],
            [header |-> <<"T","r","a","n","s","a","c","t","i","o","n"," ","T","y","p","e">>, field |-> "Transaction_Type", kind |-> "text"],
            [header |-> <<"T","r","a","n","s","a","c","t","i","o","n"," ","D","e","s","c","r","i","p","t","i","o","n">>, field |-> "Transaction_Description", kind |-> "text"],
            [header |-> <<"T","r","a","n","s","a","c","t","i","o","n"," ","A","m","o","u","n","t">>, field |-> "Transaction_Amount", kind |-> "float"],
            [header |-> <<"S","t","a","t","e","m","e","n","t","_","B","a","l","a","n","c","e">>, field |-> "Statement_Balance", kind |-> "float"],
            [header |-> <<"f","l","o","w">>, field |-> "flow", kind |-> "label"] >>
      [] m = "m2u_current_account_debit" -> <<
            [header |-> <<"E","n","t","r","y"," ","D","a","t","e">>, field |-> "Entry_Date", kind |-> "timestamp"],
            [header |-> <<"T","r","a","n","s","a","c","t","i","o","n"," ","D","e","s","c","r","i","p","t","i","o","n">>, field |-> "Transaction_Description", kind |-> "text"],
            [header |-> <<"T","r","a","n","s","a","c","t","i","o","n"," ","A","m","o","u","n","t">>, field |-> "Transaction_Amount", kind |-> "float"],
            [header |-> <<"S","t","a","t","e","m","e","n","t"," ","B","a","l","a","n","c","e">>, field |-> "Statement_Balance", kind |-> "float"],
            [header |-> <<"f","l","o","w">>, field |-> "flow", kind |-> "label"] >>
      [] m = "maybank_credit" -> <<
            [header |-> <<"Y","e","a","r">>, field |-> "Year", kind |-> "int"],
            [header |-> <<"P","o","s","t","i","n","g"," ","D","a","t","e">>, field |-> "Posting_Date", kind |-> "text"],
            [header |-> <<"T","r","a","n","s","a","c","t","i","o","n"," ","D","a","t","e">>, field |-> "Transaction_Date", kind |-> "text"],
            [header |-> <<"T","r","a","n","s","a","c","t","i","o","n"," ","D","e","s","c","r","i","p","t","i","o","n">>, field |-> "Transaction_Description", kind |-> "text"],
            [header |-> <<"A","m","o","u","n","t">>, field |-> "Amount", kind |-> "float"] >>
      [] m = "cimb_debit" -> <<
            [header |-> <<"D","a","t","e">>, field |-> "Date", kind |-> "text"],
            [header |-> <<"T","r","a","n","s","a","c","t","i","o","n"," ","T","y","p","e">>, field |-> "Transaction_Type", kind |-> "text"],
            [header |-> <<"T","r","a","n","s","a","c","t","i","o","n"," ","D","e","s","c","r","i","p","t","i","o","n">>, field |-> "Transaction_Description", kind |-> "text"],
            [header |-> <<"T","r","a","n","s","a","c","t","i","o","n"," ","D","e","s","c","r","i","p","t","i","o","n","2">>, field |-> "Transaction_Description2", kind |-> "text"],
            [header |-> <<"A","m","o","u","n","t">>, field |-> "Amount", kind |-> "text"],
            [header |-> <<"B","a","l","a","n","c","e"," ","A","f","t","e","r"," ","T","r","a","n","s","a","c","t","i","o","n">>, field |-> "Balance_After_Transaction", kind |-> "text"],
            [header |-> <<"o","u","t","p","u","t">>, field |-> "output", kind |-> "label"] >>
      [] m = "rhb_flex" -> <<
            [header |-> <<"D","a","t","e">>, field |-> "Date", kind |-> "text"],
            [header |-> <<"D","e","s","c","r","i","p","t","i","o","n">>, field |-> "Description", kind |-> "text"],
            [header |-> <<"S","e","n","d","e","r","/","B","e","n","e","f","i","c","i","a","r","y">>, field |-> "Sender_Beneficiary", kind |-> "text"],
            [header |-> <<"A","m","o","u","n","t"," ","(","D","R",")">>, field |-> "Amount_DR", kind |-> "text"],
            [header |-> <<"A","m","o","u","n","t"," ","(","C","R",")">>, field |-> "Amount_CR", kind |-> "text"],
            [header |-> <<"B","a","l","a","n","c","e">>, field |-> "Balance", kind |-> "text"],
            [header |-> <<"R","e","c","i","p","i","e","n","t"," ","R","e","f","e","r","e","n","c","e">>, field |-> "Recipient_Reference", kind |-> "text"] >>

\* lines 86-91: None for a missing value, isoformat() for dates, else the value
normalize_for_json(kind, value) ==
    CASE kind = "float" -> IF value.ok THEN value ELSE Null
      [] kind = "date" -> FormatDate(value)
      [] kind = "timestamp" -> FormatDate(value) \o <<"T","0","0",":","0","0",":","0","0">>
      [] kind = "label" -> LabelText(value)
      [] OTHER -> value

\* lines 94-96: the records of combined_df with every value normalised
JsonRows(m, rows) ==
    [k \in 1..Len(rows) |->
        [c \in 1..Len(Columns(m)) |->
            normalize_for_json(Columns(m)[c].kind, rows[k][Columns(m)[c].field])]]

\* csv.QUOTE_MINIMAL: a field with a comma or a quote is wrapped in quotes and
\* its quotes are doubled
RECURSIVE DoubleQuotes(_)
DoubleQuotes(s) ==
    IF s = <<>> THEN <<>>
    ELSE (IF Head(s) = "\"" THEN <<"\"", "\"">> ELSE <<Head(s)>>) \o DoubleQuotes(Tail(s))

CsvQuote(s) ==
    IF \E k \in 1..Len(s) : s[k] \in {",", "\""}
    THEN <<"\"">> \o DoubleQuotes(s) \o <<"\"">>
    ELSE s

\* the text to_csv writes for one value: "" for a missing value
CsvCell(kind, value) ==
    CASE kind = "float" -> IF value.ok THEN FormatFloat(value) ELSE <<>>
      [] kind = "date" -> FormatDate(value)
      [] kind = "timestamp" -> FormatDate(value)
      [] kind = "int" -> IntToDigits(value)
      [] kind = "label" -> IF LabelText(value) = Null THEN <<>> ELSE LabelText(value)
      [] OTHER -> IF value = Null THEN <<>> ELSE CsvQuote(value)

\* line 108: combined_df.to_csv(index=False) as its lines: header, then one line
\* per record in frame order
to_csv(m, rows) ==
    <<Join(<<",">>, [c \in 1..Len(Columns(m)) |-> CsvQuote(Columns(m)[c].header)])>>
    \o [k \in 1..Len(rows) |->
          Join(<<",">>, [c \in 1..Len(Columns(m)) |->
                          CsvCell(Columns(m)[c].kind, rows[k][Columns(m)[c].field])])]

\* line 83: pd.concat(all_dataframes, ignore_index=True)
RECURSIVE concat(_)
concat(frames) == IF frames = <<>> THEN <<>> ELSE Head(frames) \o concat(Tail(frames))

\* stands for datetime.utcnow().strftime("%Y%m%d-%H%M%S") of line 84
import_id == <<"<import_id>">>

\* lines 49-54: the request is refused with status 400
RejectRequest ==
    /\ server_pc = "request"
    /\ \/ mode \notin MODE_HANDLERS
       \/ response_format \notin {"csv", "json"}
       \/ files = <<>>
    /\ response' = [status |-> 400,
                    kind |-> "http_error",
                    detail |-> IF mode \notin MODE_HANDLERS THEN "Unsupported mode"
                               ELSE IF response_format \notin {"csv", "json"}
                               THEN "Invalid response_format"
                               ELSE "No files uploaded."]
    /\ server_pc' = "responded"
    /\ UNCHANGED <<mode, filename, lines, pc, data, i, cur, desc, out, year_statement,
                   result, start_marker, end_marker>>
    /\ UNCHANGED <<response_format, files, uploaded, all_dataframes, errors, examined>>

\* mutant: the mode is not tested
AcceptRequestAnyMode ==
    /\ server_pc = "request"
    /\ response_format \in {"csv", "json"}
    /\ files # <<>>
    /\ all_dataframes' = <<>>
    /\ errors' = <<>>
    /\ uploaded' = 1
    /\ server_pc' = "loop"
    /\ UNCHANGED <<mode, filename, lines, pc, data, i, cur, desc, out, year_statement,
                   result, start_marker, end_marker>>
    /\ UNCHANGED <<response_format, files, examined, response>>

\* lines 49-58: the request passes the three tests and the loop is entered
AcceptRequest ==
    /\ server_pc = "request"
    /\ mode \in MODE_HANDLERS
    /\ response_format \in {"csv", "json"}
    /\ files # <<>>
    /\ all_dataframes' = <<>>
    /\ errors' = <<>>
    /\ uploaded' = 1
    /\ server_pc' = "loop"
    /\ UNCHANGED <<mode, filename, lines, pc, data, i, cur, desc, out, year_statement,
                   result, start_marker, end_marker>>
    /\ UNCHANGED <<response_format, files, examined, response>>

\* lines 60-72: one upload up to the call of the handler
ExamineFile ==
    /\ server_pc = "loop" /\ uploaded <= Len(files)
    /\ LET name == IF files[uploaded].filename = <<>> THEN <<"u","p","l","o","a","d","e","d",".","p","d","f">>
                   ELSE files[uploaded].filename
           payload == files[uploaded].payload
       IN  IF ~EndsWith(LowerStr(name), <<".","p","d","f">>)
           THEN /\ errors' = Append(errors, [file |-> name, error |-> "Only PDF files are supported"])
                /\ examined' = Append(examined, [file |-> name, read |-> FALSE, parsed |-> FALSE,
                                               outcome |-> "error", rows |-> <<>>])
                /\ uploaded' = uploaded + 1
                /\ UNCHANGED <<filename, lines, pc, data, i, cur, desc, out,
                               year_statement, result, server_pc>>
           ELSE IF payload = <<>>
           THEN /\ errors' = Append(errors, [file |-> name, error |-> "File is empty"])
                /\ examined' = Append(examined, [file |-> name, read |-> TRUE, parsed |-> FALSE,
                                               outcome |-> "error", rows |-> <<>>])
                /\ uploaded' = uploaded + 1
                /\ UNCHANGED <<filename, lines, pc, data, i, cur, desc, out,
                               year_statement, result, server_pc>>
           ELSE /\ examined' = Append(examined, [file |-> name, read |-> TRUE, parsed |-> TRUE,
                                               outcome |-> "pending", rows |-> <<>>])
                /\ filename' = name
                /\ lines' = payload
                /\ pc' = "start"
                /\ data' = <<>> /\ i' = 1 /\ cur' = EmptyDict /\ desc' = <<>> /\ out' = <<>>
                /\ year_statement' = <<>>
                /\ result' = NoResult
                /\ server_pc' = "parsing"
                /\ UNCHANGED <<errors, uploaded>>
    /\ UNCHANGED <<mode, start_marker, end_marker, response_format, files,
                   all_dataframes, response>>

\* mutant: an upload whose handler raised ends the loop
CollectOutcomeAbort ==
    /\ server_pc = "parsing" /\ pc = "done"
    /\ IF result.kind = "table" /\ result.rows # <<>>
       THEN /\ all_dataframes' = Append(all_dataframes, result.rows)
            /\ errors' = errors
            /\ examined' = [examined EXCEPT ![Len(examined)] =
                                [@ EXCEPT !.outcome = "table", !.rows = result.rows]]
            /\ uploaded' = uploaded + 1
       ELSE /\ errors' = Append(errors,
                            [file |-> filename,
                             error |-> IF result.kind = "table" THEN "No rows extracted"
                                       ELSE result.err])
            /\ all_dataframes' = all_dataframes
            /\ examined' = [examined EXCEPT ![Len(examined)] = [@ EXCEPT !.outcome = "error"]]
            /\ uploaded' = Len(files) + 1
    /\ server_pc' = "loop"
    /\ UNCHANGED <<mode, filename, lines, pc, data, i, cur, desc, out, year_statement,
                   result, start_marker, end_marker>>
    /\ UNCHANGED <<response_format, files, response>>

\* lines 72-78: the handler has returned or raised; str(exc) is modelled by the
\* name of the exception
CollectOutcome ==
    /\ server_pc = "parsing" /\ pc = "done"
    /\ IF result.kind = "table" /\ result.rows # <<>>
       THEN /\ all_dataframes' = Append(all_dataframes, result.rows)
            /\ errors' = errors
            /\ examined' = [examined EXCEPT ![Len(examined)] =
                                [@ EXCEPT !.outcome = "table", !.rows = result.rows]]
       ELSE /\ errors' = Append(errors,
                            [file |-> filename,
                             error |-> IF result.kind = "table" THEN "No rows extracted"
                                       ELSE result.err])
            /\ all_dataframes' = all_dataframes
            /\ examined' = [examined EXCEPT ![Len(examined)] = [@ EXCEPT !.outcome = "error"]]
    /\ uploaded' = uploaded + 1
    /\ server_pc' = "loop"
    /\ UNCHANGED <<mode, filename, lines, pc, data, i, cur, desc, out, year_statement,
                   result, start_marker, end_marker>>
    /\ UNCHANGED <<response_format, files, response>>

\* lines 80-114: the answer once every upload has been examined
Respond ==
    /\ server_pc = "loop" /\ uploaded > Len(files)
    /\ response' =
         IF all_dataframes = <<>>
         THEN [status |-> 422, kind |-> "no_data", errors |-> errors]
         ELSE LET combined_df == concat(all_dataframes) IN
              IF response_format = "json"
              THEN [status |-> 200,
                    kind |-> "json",
                    import_id |-> import_id,
                    mode |-> mode,
                    row_count |-> Len(combined_df),
                    rows |-> JsonRows(mode, combined_df),
                    errors |-> errors]
              ELSE [status |-> 200,
                    kind |-> "csv",
                    content |-> to_csv(mode, combined_df),
                    headers |->
                        LET disposition ==
                                Put(EmptyDict, "Content-Disposition",
                                    <<"a","t","t","a","c","h","m","e","n","t",";"," ","f","i","l","e","n","a","m","e","=">> \o <<"\"">> \o ModeText(mode)
                                        \o <<"-">> \o import_id \o <<".","c","s","v">> \o <<"\"">>)
                        IN  IF errors # <<>>
                            THEN Put(disposition, "X-Partial-Errors", IntToDigits(Len(errors)))
                            ELSE disposition]
    /\ server_pc' = "responded"
    /\ UNCHANGED <<mode, filename, lines, pc, data, i, cur, desc, out, year_statement,
                   result, start_marker, end_marker>>
    /\ UNCHANGED <<response_format, files, uploaded, all_dataframes, errors, examined>>

MaxFiles == 2

\* two documents a handler returns a table for, and one it does not
Documents(m) ==
    CASE m = "maybank_debit" ->
            {<<<<"0","1","/","0","3","/","2","1">>, <<"S","A","L","A","R","Y"," ","C","R","E","D","I","T">>, <<"1","5","0",".","0","0","+">>, <<"1",",","2","0","0",".","0","0">>>>,
             <<<<"0","2","/","0","3","/","2","1">>, <<"T","R","A","N","S","F","E","R",","," ","A","C","M","E">>, <<"2","0",".","5","0","-">>>>,
             <<<<"S","A","L","A","R","Y"," ","C","R","E","D","I","T">>>>}
      [] m = "maybank_credit" ->
            {<<<<"0","1","/","0","3">>, <<"0","2","/","0","3">>, <<"S","H","O","P">>, <<"1",",","0","1","0",".","0","0">>>>,
             <<<<"0","2","/","0","3">>, <<"0","2","/","0","3">>, <<"5",".","0","0","C","R">>>>,
             <<<<"S","H","O","P">>>>}
      [] m = "cimb_debit" ->
            {<<<<"O","P","E","N","I","N","G"," ","B","A","L","A","N","C","E">>, <<"5","0","0",".","0","0">>, <<"0","1","/","0","3","/","2","0","2","1">>, <<"T","R","A","N","S","F","E","R"," ","A","C","M","E">>, <<"-","2","0",".","0","0">>, <<"4","8","0",".","0","0">>>>,
             <<<<"0","1","/","0","3","/","2","0","2","1">>, <<"T","R","A","N","S","F","E","R"," ","A","C","M","E">>, <<"2","0",".","0","0">>, <<"1","0","0",".","0","0">>,
               <<"0","1","/","0","3","/","2","0","2","1">>, <<"T","R","A","N","S","F","E","R"," ","A","C","M","E">>, <<"2","0",".","0","0">>, <<"1",",","2","0","0",".","0","0">>>>,
             <<<<"O","P","E","N","I","N","G"," ","B","A","L","A","N","C","E">>, <<"5","0","0",".","0","0">>>>}
      [] m = "m2u_current_account_debit" ->
            {<<<<"1","5","/","0","3">>, <<"T","R","A","N","S","F","E","R">>, <<"2","0",".","0","0","-">>, <<"1",",","1","8","0",".","0","0">>>>,
             <<<<"S","T","A","T","E","M","E","N","T"," ","D","A","T","E"," ",":"," ","3","1","/","0","3","/","2","1">>, <<"1","6","/","0","3">>, <<"S","A","L","A","R","Y">>, <<"1","5","0",".","0","0","+">>>>,
             <<<<"1","5","/","0","3">>, <<"1",",","1","8","0",".","0","0">>>>}
      [] m = "rhb_flex" ->
            {<<<<"0","1","-","0","3","-","2","0","2","1">>, <<"2","0",".","0","0"," ","D","R">>, <<"0","2","-","0","3","-","2","1"," ","D","U","I","T","N","O","W">>, <<"5",".","0","0">>>>,
             <<<<"0","3","-","0","3","-","2","0","2","1">>, <<"1",",","1","8","0",".","0","0","+"," ","A","C","M","E"," ","S","D","N"," ","B","H","D"," ","R","E","F"," ","1","2","3"," ","R","E","N","T">>>>,
             <<<<"R","F","L","X"," ","I","N","S","T","A","N","T"," ","T","R","F"," ","D","R">>>>}
      [] OTHER -> {<<<<"S","A","L","A","R","Y"," ","C","R","E","D","I","T">>>>}

\* the uploads a request may carry: a file that is no PDF, an empty PDF, a PDF
\* without filename, and the documents of the format
Uploads(m) ==
    {[filename |-> <<"n","o","t","e","s",".","t","x","t">>, payload |-> <<<<"S","A","L","A","R","Y"," ","C","R","E","D","I","T">>>>],
     [filename |-> <<"e","m","p","t","y",".","p","d","f">>, payload |-> <<>>],
     [filename |-> <<>>, payload |-> <<<<"S","A","L","A","R","Y"," ","C","R","E","D","I","T">>>>]}
    \union {[filename |-> <<"M","2","U","_","2","0","2","2","0","3",".","P","D","F">>, payload |-> d] : d \in Documents(m)}

UnsupportedMode == "paypal"

\* a request POSTed to /process
InitBatch ==
    /\ mode \in MODE_HANDLERS \union {UnsupportedMode}
    /\ response_format \in {"csv", "json", "xml"}
    /\ files \in SeqsOf(Uploads(mode), 0, MaxFiles)
    /\ server_pc = "request"
    /\ uploaded = 1
    /\ all_dataframes = <<>>
    /\ errors = <<>>
    /\ examined = <<>>
    /\ response = [status |-> 0, kind |-> "none"]
    /\ pc = "idle"
    /\ filename = <<>> /\ lines = <<>>
    /\ data = <<>> /\ i = 1 /\ cur = EmptyDict /\ desc = <<>> /\ out = <<>>
    /\ year_statement = <<>>
    /\ result = NoResult
    /\ start_marker = <<>> /\ end_marker = <<>>

NextBatch ==
    \/ RejectRequest
    \/ AcceptRequest
    \/ ExamineFile
    \/ CollectOutcome
    \/ Respond
    \/ Next

SpecBatch == InitBatch /\ [][NextBatch]_vars

----------------------------------------------------------------------------
(* Claims *)

\* C8: _remove_sections drops every line from the first line containing
\* start_marker up to and including the next line containing end_marker (to the
\* end of the input when no such line follows); what it returns is a
\* subsequence, in the original order, of the lines outside that range.
C8_SectionRemoved ==
    (mode = "remove_sections" /\ pc = "done") =>
        LET S == {k \in 1..Len(lines) : In(start_marker, lines[k])} IN
        IF S = {} THEN IsSubseq(data, lines)
        ELSE LET s == Min(S)
                 E == {k \in (s + 1)..Len(lines) : In(end_marker, lines[k])}
                 e == IF E = {} THEN Len(lines) ELSE Min(E)
             IN  IsSubseq(data, SubSeq(lines, 1, s - 1) \o SubSeq(lines, e + 1, Len(lines)))

\* C8 witness: a section closed by an end-marker line has been removed and lines
\* on both sides of it were retained
C8_Witness ==
    /\ mode = "remove_sections" /\ pc = "done"
    /\ Len(lines) = 5
    /\ ~In(start_marker, lines[1])
    /\ In(start_marker, lines[2])
    /\ ~In(start_marker, lines[3]) /\ ~In(end_marker, lines[3])
    /\ In(end_marker, lines[4]) /\ ~In(start_marker, lines[4])
    /\ data = <<lines[1], lines[5]>>

Fixture_MaybankDebit == <<<<"0","1","/","0","3","/","2","1">>, <<"1","5","0",".","0","0","+">>, <<"1",",","2","0","0",".","0","0">>, <<"S","A","L","A","R","Y"," ","C","R","E","D","I","T">>>>

Fixture_MaybankDebitTypeFirst == <<<<"0","1","/","0","3","/","2","1">>, <<"S","A","L","A","R","Y"," ","C","R","E","D","I","T">>, <<"1","5","0",".","0","0","+">>, <<"1",",","2","0","0",".","0","0">>>>

Date_2021_03_01 == [ok |-> TRUE, d |-> 1, m |-> 3, y |-> 2021]

Float_150 == [ok |-> TRUE, m |-> 150, e |-> 0]

Float_1200 == [ok |-> TRUE, m |-> 1200, e |-> 0]

IsAnchorLine(m, line) ==
    CASE m = "maybank_debit" -> DateYYAt(line, 1)
      [] m = "maybank_credit" -> IsShortDate(line)
      [] m = "cimb_debit" -> DateYYYYAt(line, 1) \/ line = <<"O","P","E","N","I","N","G"," ","B","A","L","A","N","C","E">>
      [] m = "m2u_current_account_debit" -> DateDDMMAt(strip(line), 1)
      [] m = "rhb_flex" -> RhbDateMatch(strip(line)) # <<>>

\* C2 as stated: a document without any anchor line makes the handler fail with
\* the "no transactions extracted" error and with nothing else.
C2_AsStated ==
    (mode \in MODE_HANDLERS /\ pc = "done"
       /\ \A k \in 1..Len(lines) : ~IsAnchorLine(mode, lines[k]))
    => result = Raise("NoTransactionsExtracted")

\* the amount of a record of a returned table is missing
NullAmount(m, row) ==
    CASE m = "maybank_debit" -> ~row.Transaction_Amount.ok
      [] m = "maybank_credit" -> ~row.Amount.ok
      [] m = "cimb_debit" -> row.Amount = Null
      [] m = "m2u_current_account_debit" -> ~row.Transaction_Amount.ok
      [] OTHER -> FALSE

\* C3 as stated: no record of a returned table has a null amount.
C3_AsStated ==
    (mode \in MODE_HANDLERS /\ pc = "done" /\ result.kind = "table") =>
        \A k \in 1..Len(result.rows) : ~NullAmount(mode, result.rows[k])

\* C4 as stated: no handler returns a table with zero records.
C4_AsStated ==
    (mode \in MODE_HANDLERS /\ pc = "done" /\ result.kind = "table") => Len(result.rows) > 0

\* the document's lines as the M2U handler reads them (line 58)
DocLines == StrippedNonBlank(lines)

HasStatementDate(k) == In(<<"S","T","A","T","E","M","E","N","T"," ","D","A","T","E">>, DocLines[k])

HasDate(k) == \E p \in 1..Len(DocLines[k]) : DateYYAt(DocLines[k], p)

YearResolved == mode = "m2u_current_account_debit" /\ pc # "start"

\* C5: when a DD/MM/YY date stands on the first STATEMENT DATE line or on one of
\* the four lines after it, the resolved year is the year of the first date of
\* the first such line, whatever dates stand earlier in the document.
C5_WindowYear ==
    YearResolved =>
        \A s \in 1..Len(DocLines) :
            (/\ HasStatementDate(s)
             /\ \A k \in 1..(s - 1) : ~HasStatementDate(k)) =>
                \A j \in s..(s + 4) :
                    (/\ j <= Len(DocLines)
                     /\ HasDate(j)
                     /\ \A k \in s..(j - 1) : ~HasDate(k)) =>
                        year_statement = YearOfFirstDate(DocLines[j])

\* C5 witness: the year comes from the window although a date with another year
\* stands before the STATEMENT DATE line
C5_Witness ==
    /\ YearResolved
    /\ Len(lines) >= 3
    /\ lines[1] = <<"1","5","/","0","2","/","2","0">>
    /\ lines[2] = <<"S","T","A","T","E","M","E","N","T"," ","D","A","T","E">>
    /\ lines[3] = <<"S","T","A","T","E","M","E","N","T"," ","D","A","T","E"," ",":"," ","3","1","/","0","3","/","2","1">>
    /\ year_statement = <<"2","1">>

\* the filename holds k digits in a row from position p on
DigitsAt(p, k) == p + k - 1 <= Len(filename) /\ \A j \in 0..(k - 1) : filename[p + j] \in Digit

\* C6 as stated: without a STATEMENT DATE line, a filename with a four-digit
\* year decides the year (its last two digits).
C6_AsStated ==
    YearResolved =>
        \A p \in 1..Len(filename) :
            (/\ DigitsAt(p, 4)
             /\ \A q \in 1..(p - 1) : ~DigitsAt(q, 4)
             /\ \A k \in 1..Len(DocLines) : ~HasStatementDate(k)) =>
                year_statement = SubSeq(filename, p + 2, p + 3)

\* C6 amended: without a STATEMENT DATE line and without a DD/MM/YY date on any
\* line, a filename with a four-digit run followed by two more digits decides the
\* year: the last two digits of the first such four-digit run.
C6_Amended ==
    YearResolved =>
        \A p \in 1..Len(filename) :
            (/\ DigitsAt(p, 6)
             /\ \A q \in 1..(p - 1) : ~DigitsAt(q, 6)
             /\ \A k \in 1..Len(DocLines) : ~HasStatementDate(k) /\ ~HasDate(k)) =>
                year_statement = SubSeq(filename, p + 2, p + 3)

\* C6 witness: the year 22 of m2u_202203.pdf was used for a document without
\* STATEMENT DATE line and without dates
C6_Witness ==
    /\ YearResolved
    /\ filename = <<"m","2","u","_","2","0","2","2","0","3",".","p","d","f">>
    /\ \A k \in 1..Len(DocLines) : ~HasStatementDate(k) /\ ~HasDate(k)
    /\ year_statement = <<"2","2">>
    /\ pc = "done" /\ result.kind = "table"

\* neither the STATEMENT DATE window nor any line yields a date
NoDateInDocument == \A k \in 1..Len(DocLines) : ~HasDate(k)

\* C7 as stated: in tier 3 the year is the last two digits of the six-digit
\* substring of the filename.
C7_AsStated ==
    YearResolved =>
        \A p \in 1..Len(filename) :
            (/\ DigitsAt(p, 6)
             /\ \A q \in 1..(p - 1) : ~DigitsAt(q, 6)
             /\ NoDateInDocument) =>
                year_statement = SubSeq(filename, p + 4, p + 5)

\* C7 amended: in tier 3 the year is the third and fourth digit of the six-digit
\* substring, that is the last two digits of its leading four-digit run.
C7_Amended ==
    YearResolved =>
        \A p \in 1..Len(filename) :
            (/\ DigitsAt(p, 6)
             /\ \A q \in 1..(p - 1) : ~DigitsAt(q, 6)
             /\ NoDateInDocument) =>
                /\ year_statement = SubSeq(filename, p + 2, p + 3)
                /\ result.err # "UnresolvedYear"

\* C7 witness: the document has a STATEMENT DATE line but no date at all, so
\* tiers 1 and 2 found nothing, and the filename m2u_202203.pdf gave the year 22
C7_Witness ==
    /\ YearResolved
    /\ filename = <<"m","2","u","_","2","0","2","2","0","3",".","p","d","f">>
    /\ NoDateInDocument
    /\ \E k \in 1..Len(DocLines) : HasStatementDate(k)
    /\ year_statement = <<"2","2">>

\* the number a balance string denotes once its thousands separators are removed
BalanceValue(s) == ParseFloat(RemoveChars(s, {","}))

\* C9 as stated: from the second record on, a balance numerically greater than
\* the previous record's gives deposit and a smaller one gives withdrawal.
C9_AsStated ==
    (mode = "cimb_debit" /\ pc = "done" /\ result.kind = "table") =>
        \A k \in 2..Len(result.rows) :
            LET prev == BalanceValue(result.rows[k - 1].Balance_After_Transaction)
                curr == BalanceValue(result.rows[k].Balance_After_Transaction)
            IN  /\ Gt(curr, prev) => result.rows[k].output = "deposit"
                /\ Gt(prev, curr) => result.rows[k].output = "withdrawal"

\* the opening balance opens the filtered line sequence: data[k] is the line
\* OPENING BALANCE, an amount line follows it and no transaction precedes it
OpeningBalanceAt(k) ==
    /\ k < Len(data)
    /\ data[k] = <<"O","P","E","N","I","N","G"," ","B","A","L","A","N","C","E">>
    /\ AmountStart(strip(data[k + 1]))
    /\ \A j \in 1..(k - 1) : ~DateYYYYAt(data[j], 1) /\ data[j] # <<"O","P","E","N","I","N","G"," ","B","A","L","A","N","C","E">>

\* C10 as stated: a filtered line sequence with the line OPENING BALANCE followed
\* by an amount line gives a table whose first record has the description
\* Opening Balance, that line as amount and the balance "-", also when it is the
\* only record.
C10_AsStated ==
    (mode = "cimb_debit" /\ pc = "done") =>
        \A k \in 1..Len(data) :
            OpeningBalanceAt(k) =>
                /\ result.kind = "table"
                /\ result.rows[1].Transaction_Description = <<"O","p","e","n","i","n","g"," ","B","a","l","a","n","c","e">>
                /\ result.rows[1].Amount = strip(data[k + 1])
                /\ result.rows[1].Balance_After_Transaction = <<"-">>

\* indices of the anchor lines of an RHB document
RhbAnchorIndices == {k \in 1..Len(lines) : RhbDateMatch(strip(lines[k])) # <<>>}

\* index of the j-th anchor line
RhbNthAnchor(j) ==
    CHOOSE k \in RhbAnchorIndices : Cardinality({a \in RhbAnchorIndices : a < k}) = j - 1

\* the j-th line group: the date of the j-th anchor line and the lines after it
\* up to the next anchor line or the end of the document
RhbGroup(j) ==
    LET a == RhbNthAnchor(j)
        b == IF j < Cardinality(RhbAnchorIndices) THEN RhbNthAnchor(j + 1) ELSE Len(lines) + 1
    IN  [Date |-> RhbDateMatch(strip(lines[a])),
         Lines |-> [k \in 1..(b - a - 1) |-> strip(lines[a + k])]]

\* C11: the RHB table has one row per anchor line, in anchor order; Date,
\* Description, Sender/Beneficiary and Balance of a row are those of its own line
\* group; Recipient Reference, Amount (DR) and Amount (CR) of row j > 1 are the
\* values computed from line group j - 1 and are null on the first row, so the
\* values of the last line group appear nowhere.
C11_ColumnShift ==
    (mode = "rhb_flex" /\ pc = "done" /\ RhbAnchorIndices # {}) =>
        /\ result.kind = "table"
        /\ Len(result.rows) = Cardinality(RhbAnchorIndices)
        /\ \A j \in 1..Len(result.rows) :
              LET row == result.rows[j]
                  own == RhbRow(RhbGroup(j))
                  p   == process_sender_beneficiary(own.Sender_Beneficiary)
              IN  /\ row.Date = RhbDate(own.Date)
                  /\ row.Description = own.Description
                  /\ row.Sender_Beneficiary = p.Sender_Beneficiary
                  /\ row.Balance = p.Balance
                  /\ j = 1 =>
                        /\ row.Recipient_Reference = Null
                        /\ row.Amount_DR = Null
                        /\ row.Amount_CR = Null
                  /\ j > 1 =>
                        LET prev == RhbRow(RhbGroup(j - 1)) IN
                        /\ row.Recipient_Reference =
                              process_sender_beneficiary(prev.Sender_Beneficiary).Recipient_Reference
                        /\ row.Amount_DR = prev.Amount_DR
                        /\ row.Amount_CR = prev.Amount_CR

\* C11 witness: the amount 20.00 DR of the first line group stands on the second
\* row, the first row's shifted fields are null and the amount 5.00 of the last
\* line group is not in the table
C11_Witness ==
    /\ mode = "rhb_flex" /\ pc = "done"
    /\ lines = <<<<"0","1","-","0","3","-","2","0","2","1">>, <<"2","0",".","0","0"," ","D","R">>, <<"0","2","-","0","3","-","2","1"," ","D","U","I","T","N","O","W">>, <<"5",".","0","0">>>>
    /\ result.kind = "table" /\ Len(result.rows) = 2
    /\ result.rows[1].Amount_DR = Null
    /\ result.rows[2].Amount_DR = <<"2","0",".","0","0">>
    /\ result.rows[2].Amount_CR = <<>>
    /\ result.rows[2].Date = <<"0","2","-","0","3","-","2","1">>

\* the name process_pdfs gives upload k (line 61)
UploadName(k) == IF files[k].filename = <<>> THEN <<"u","p","l","o","a","d","e","d",".","p","d","f">> ELSE files[k].filename

\* the loop of process_pdfs has ended
LoopEnded ==
    \/ server_pc = "loop" /\ uploaded > Len(files)
    \/ server_pc = "responded" /\ response.status # 400

\* number of uploads examined so far with the given outcome
OutcomeCount(o) == Cardinality({k \in 1..Len(examined) : examined[k].outcome = o})

\* C12: uploads are examined in upload order whatever happened to the earlier
\* ones; an upload that is no PDF is not read, an empty one is read and not
\* parsed; every examined upload has exactly one outcome, a table in
\* all_dataframes or one entry in errors; when the loop ends every upload has
\* been examined and successes + errors = number of uploads.
C12_BatchIsolation ==
    (server_pc # "idle") =>
        /\ Len(examined) <= Len(files)
        /\ \A k \in 1..Len(examined) :
              /\ examined[k].file = UploadName(k)
              /\ examined[k].read = EndsWith(LowerStr(UploadName(k)), <<".","p","d","f">>)
              /\ examined[k].parsed = (examined[k].read /\ files[k].payload # <<>>)
              /\ examined[k].outcome = "pending" => (k = Len(examined) /\ server_pc = "parsing")
        /\ OutcomeCount("table") = Len(all_dataframes)
        /\ OutcomeCount("error") = Len(errors)
        /\ \A j \in 1..Len(errors) :
              \E k \in 1..Len(examined) :
                  /\ examined[k].outcome = "error"
                  /\ errors[j].file = examined[k].file
                  /\ Cardinality({h \in 1..k : examined[h].outcome = "error"}) = j
        /\ LoopEnded =>
              /\ Len(examined) = Len(files)
              /\ Len(all_dataframes) + Len(errors) = Len(files)

\* C12 witness: the handler raised for the first upload and the second upload
\* was parsed all the same and gave a table
C12_Witness ==
    /\ LoopEnded
    /\ Len(files) = 2
    /\ examined[1].parsed /\ examined[1].outcome = "error"
    /\ errors[1].error = "KeyError"
    /\ examined[2].parsed /\ examined[2].outcome = "table"
    /\ Len(all_dataframes) = 1 /\ Len(errors) = 1

\* the tables of the successful uploads, concatenated in upload order
TablesInUploadOrder == concat([k \in 1..Len(examined) |-> examined[k].rows])

\* C13 as stated: without any non-empty table the batch fails as a whole and the
\* answer carries the error entries; with at least one, the answer carries the
\* tables concatenated in upload order and the error entries, as csv and as json.
C13_AsStated ==
    (server_pc = "responded" /\ response.status # 400) =>
        IF OutcomeCount("table") = 0
        THEN /\ response.status = 422
             /\ response.errors = errors
        ELSE /\ response.status = 200
             /\ response.kind = "json" => response.rows = JsonRows(mode, TablesInUploadOrder)
             /\ response.kind = "csv" => response.content = to_csv(mode, TablesInUploadOrder)
             /\ errors # <<>> => ("errors" \in DOMAIN response /\ response.errors = errors)

\* C15: a request whose mode is no key of MODE_HANDLERS never has an upload
\* examined, read or parsed, produces no table and no error entry, and is
\* answered with status 400.
C15_UnsupportedMode ==
    (server_pc # "idle" /\ mode \notin MODE_HANDLERS) =>
        /\ examined = <<>>
        /\ all_dataframes = <<>>
        /\ errors = <<>>
        /\ pc = "idle"
        /\ server_pc \in {"request", "responded"}
        /\ server_pc = "responded" =>
              /\ response.status = 400
              /\ response.detail = "Unsupported mode"

\* C15 witness: a request with two uploads and an unsupported mode was refused
C15_Witness ==
    /\ server_pc = "responded"
    /\ mode \notin MODE_HANDLERS
    /\ Len(files) = 2
    /\ response_format = "csv"
    /\ response.status = 400
    /\ examined = <<>>

\* s is DD<sep>MM<sep>YYYY and names a day of the calendar
ValidDMY(s, sep) ==
    /\ s # Null
    /\ Len(s) = 10
    /\ \A k \in {1, 2, 4, 5, 7, 8, 9, 10} : s[k] \in Digit
    /\ s[3] = sep /\ s[6] = sep
    /\ DigitsToInt(SubSeq(s, 4, 5)) \in 1..12
    /\ DigitsToInt(SubSeq(s, 1, 2)) >= 1
    /\ DigitsToInt(SubSeq(s, 1, 2)) <=
           DaysInMonth(DigitsToInt(SubSeq(s, 4, 5)), DigitsToInt(SubSeq(s, 7, 10)))

\* s is DD/MM and names a day of the year y
ValidDM(s, y) ==
    /\ Len(s) = 5
    /\ \A k \in {1, 2, 4, 5} : s[k] \in Digit
    /\ s[3] = "/"
    /\ DigitsToInt(SubSeq(s, 4, 5)) \in 1..12
    /\ DigitsToInt(SubSeq(s, 1, 2)) >= 1
    /\ DigitsToInt(SubSeq(s, 1, 2)) <= DaysInMonth(DigitsToInt(SubSeq(s, 4, 5)), y)

\* the date of a record of a returned table is a day of the calendar
RowDateValid(m, row) ==
    CASE m = "maybank_debit" -> row.Entry_Date.ok
      [] m = "m2u_current_account_debit" -> row.Entry_Date.ok
      [] m = "maybank_credit" ->
            ValidDM(row.Posting_Date, row.Year) /\ ValidDM(row.Transaction_Date, row.Year)
      [] m = "cimb_debit" ->
            row.Transaction_Description = <<"O","p","e","n","i","n","g"," ","B","a","l","a","n","c","e">> \/ ValidDMY(row.Date, "/")
      [] m = "rhb_flex" -> row.Date # Null

\* C14 as stated: no handler returns a table with a record whose date is null or
\* is no calendar date; such a document makes the handler fail.
C14_AsStated ==
    (mode \in MODE_HANDLERS /\ pc = "done" /\ result.kind = "table") =>
        \A k \in 1..Len(result.rows) : RowDateValid(mode, result.rows[k])

\* the anchor lines the assembler of the format sees in its filtered lines
AssemblerAnchors(m) ==
    CASE m = "m2u_current_account_debit" ->
            {k \in 1..Len(data) : DateDDMMAt(strip(data[k]), 1)}
      [] m = "rhb_flex" -> {k \in 1..Len(data) : RhbDateMatch(strip(data[k])) # <<>>}
      [] m = "maybank_debit" -> {k \in 1..Len(data) : DateYYAt(data[k], 1)}

\* the assembler of the format has scanned its lines to the end
ScanCompleted ==
    /\ mode \in {"m2u_current_account_debit", "rhb_flex", "maybank_debit"}
    /\ pc = "done"
    /\ result.err \notin {"UnresolvedYear", "KeyError"}

\* C16 as stated: the number of sealed records equals the number of anchor lines
\* the assembler has seen, records without description lines included.
C16_AsStated ==
    ScanCompleted => Len(out) = Cardinality(AssemblerAnchors(mode))

\* the M2U assembler is about to scan a line that is no anchor while a record is open
M2UScansNonAnchor ==
    /\ mode = "m2u_current_account_debit" /\ pc = "scan" /\ i <= Len(data)
    /\ DOMAIN cur # {}
    /\ ~DateDDMMAt(strip(data[i]), 1)

\* C17: in a step of the M2U assembler over a non-anchor line of an open record,
\* the amount slot changes only if it was empty and the line is numeric and
\* contains + or -; a numeric line fills the balance slot, signed or not,
\* whenever the amount slot is filled and the balance slot is empty, and the
\* balance slot changes in no other case; a line that fills no slot is appended
\* to the description buffer, a line that fills a slot is not.
C17_SlotFilling ==
    [][M2UScansNonAnchor =>
         LET line    == strip(data[i])
             numeric == FirstAmount(line) # <<>>
             signed  == In(<<"+">>, line) \/ In(<<"-">>, line)
         IN  /\ DOMAIN cur' = DOMAIN cur
             /\ cur'.Entry_Date = cur.Entry_Date
             /\ cur'.Transaction_Amount # cur.Transaction_Amount =>
                   /\ numeric /\ signed /\ cur.Transaction_Amount = Null
                   /\ cur'.Transaction_Amount = FirstAmount(line)
             /\ (numeric /\ signed /\ cur.Transaction_Amount = Null) =>
                   cur'.Transaction_Amount = FirstAmount(line)
             /\ cur'.Statement_Balance # cur.Statement_Balance =>
                   /\ numeric /\ cur.Transaction_Amount # Null /\ cur.Statement_Balance = Null
                   /\ cur'.Statement_Balance = FirstAmount(line)
             /\ (numeric /\ cur.Transaction_Amount # Null /\ cur.Statement_Balance = Null) =>
                   cur'.Statement_Balance = FirstAmount(line)
             /\ desc' = IF cur' = cur THEN Append(desc, line) ELSE desc
             /\ out' = out
    ]_vars

\* C17 witness: after the anchor 15/03 the unsigned line 1,180.00 went to the
\* description, the signed line 20.00- filled the amount slot and the next
\* unsigned line 1,180.00 filled the balance slot
C17_Witness ==
    /\ mode = "m2u_current_account_debit" /\ pc = "scan"
    /\ data = <<<<"1","5","/","0","3">>, <<"1",",","1","8","0",".","0","0">>, <<"2","0",".","0","0","-">>, <<"1",",","1","8","0",".","0","0">>>>
    /\ i = 5
    /\ cur.Transaction_Amount = <<"2","0",".","0","0","-">>
    /\ cur.Statement_Balance = <<"1",",","1","8","0",".","0","0">>
    /\ desc = <<<<"1",",","1","8","0",".","0","0">>>>

\* the date lines among the first k lines of d that are kept when a date line is
\* kept exactly if none of the three lines before it is a kept date line
RECURSIVE KeptDateLines(_, _)
KeptDateLines(d, k) ==
    IF k = 0 THEN {}
    ELSE LET before == KeptDateLines(d, k - 1) IN
         IF DateYYYYAt(d[k], 1) /\ before \cap {k - 3, k - 2, k - 1} = {}
         THEN before \union {k}
         ELSE before

\* the lines of d at the indices of K, in their order
LinesAt(d, K) ==
    [j \in 1..Cardinality(K) |->
        d[CHOOSE k \in K : Cardinality({a \in K : a < k}) = j - 1]]

\* C18: _remove_close_dates keeps, in their order, every line that is no date
\* line and every date line that has no kept date line among the three lines
\* before it, and nothing else.
C18_CloseDates ==
    (mode = "remove_close_dates" /\ pc = "done") =>
        data = LinesAt(lines, {k \in 1..Len(lines) :
                                 \/ ~DateYYYYAt(lines[k], 1)
                                 \/ k \in KeptDateLines(lines, Len(lines))})

\* C18 witness: the date line three positions after a kept date line was
\* removed and the date line right after the removed one was kept
C18_Witness ==
    /\ mode = "remove_close_dates" /\ pc = "done"
    /\ lines = <<<<"0","1","/","0","3","/","2","0","2","1">>, <<"T","R","A","N","S","F","E","R"," ","A","C","M","E">>, <<"T","R","A","N","S","F","E","R"," ","A","C","M","E">>,
                 <<"0","2","/","0","3","/","2","0","2","1"," ","T","R","A","N","S","F","E","R">>, <<"0","1","/","0","3","/","2","0","2","1">>>>
    /\ data = <<<<"0","1","/","0","3","/","2","0","2","1">>, <<"T","R","A","N","S","F","E","R"," ","A","C","M","E">>, <<"T","R","A","N","S","F","E","R"," ","A","C","M","E">>, <<"0","1","/","0","3","/","2","0","2","1">>>>

\* a section opened by a start-marker line among the lines before line k is
\* still open at line k
RECURSIVE SectionOpenBefore(_)
SectionOpenBefore(k) ==
    IF k <= 1 THEN FALSE
    ELSE IF In(start_marker, lines[k - 1]) THEN TRUE
    ELSE IF In(end_marker, lines[k - 1]) THEN FALSE
    ELSE SectionOpenBefore(k - 1)

\* the lines that lie in no section: neither a start-marker line, nor a line
\* after an unclosed start-marker line up to and including its end-marker line
OutsideSections ==
    {k \in 1..Len(lines) : ~In(start_marker, lines[k]) /\ ~SectionOpenBefore(k)}

\* C19 as stated: every line outside the marked sections is in the output, an
\* end-marker line that no unclosed start-marker line precedes included.
C19_AsStated ==
    (mode = "remove_sections" /\ pc = "done") =>
        IsSubseq(LinesAt(lines, OutsideSections), data)

\* the anchor lines among the first k filtered lines of a Maybank debit document
MaybankDebitAnchorsBefore(k) == {j \in 1..Len(data) : j < k /\ DateYYAt(data[j], 1)}

\* C20 as stated: every sealed record of the Maybank debit assembler was opened
\* by an anchor line and has that line as its entry date, and as long as no
\* anchor line has been scanned no record exists and no slot is filled.
C20_AsStated ==
    (mode = "maybank_debit" /\ pc \in {"scan", "done"}) =>
        /\ \A k \in 1..Len(out) :
              /\ "Entry_Date" \in DOMAIN out[k]
              /\ DateYYAt(out[k]["Entry_Date"], 1)
        /\ MaybankDebitAnchorsBefore(i) = {} => (out = <<>> /\ DOMAIN cur = {})

\* the CIMB scan is at the line OPENING BALANCE and reads the line after it
CimbReadsAfterOpening ==
    /\ mode = "cimb_debit" /\ pc = "scan" /\ i <= Len(data)
    /\ data[i] = <<"O","P","E","N","I","N","G"," ","B","A","L","A","N","C","E">>

\* C21 as stated: the CIMB scan never reads a line index beyond the end of the
\* filtered line sequence, also when its last line is OPENING BALANCE, and the
\* handler ends with a table or with the no-transactions-extracted error.
C21_AsStated ==
    /\ CimbReadsAfterOpening => i + 1 <= Len(data)
    /\ (mode = "cimb_debit" /\ pc = "done") =>
          \/ result.kind = "table"
          \/ result.kind = "error" /\ result.err = "NoTransactionsExtracted"

\* the CIMB scan is at a date anchor line and assembles the record it opens
CimbAtAnchor ==
    /\ mode = "cimb_debit" /\ pc = "scan" /\ i <= Len(data)
    /\ DateYYYYAt(data[i], 1)

\* the lines after index k that end the description of the record opened at k
CimbDescriptionEnds(k) ==
    {j \in (k + 1)..Len(data) : DateYYYYAt(data[j], 1) \/ AmountStart(strip(data[j]))}

\* the non-blank lines after index a
CimbNonBlankAfter(a) == {j \in (a + 1)..Len(data) : strip(data[j]) # <<>>}

\* C22 as stated: the balance of a CIMB record is the first non-blank line after
\* the record's amount line, and that line is no date anchor line and is not
\* used again as the anchor of the following record.
C22_AsStated ==
    [][CimbAtAnchor =>
          /\ Len(out') = Len(out) + 1
          /\ CimbDescriptionEnds(i) # {} =>
                LET B == CimbNonBlankAfter(Min(CimbDescriptionEnds(i)))
                IN  /\ out'[Len(out')].Balance_After_Transaction =
                          IF B = {} THEN <<>> ELSE strip(data[Min(B)])
                    /\ B # {} =>
                          /\ ~DateYYYYAt(data[Min(B)], 1)
                          /\ ~(i' <= Min(B) /\ data[Min(B)] = <<"O","P","E","N","I","N","G"," ","B","A","L","A","N","C","E">>)]_vars

\* the working text of an RHB line group when the label scan starts: the joined
\* lines without the trailing amount
RhbWorkingText(txn) ==
    LET c0 == strip(Join(<<" ">>, txn.Lines))
        am == RhbAmountMatch(c0)
    IN  IF am.start = 0 THEN c0 ELSE strip(SubSeq(c0, 1, am.start - 1))

\* C23 as stated: every label of the list can be emitted: a row whose working
\* text is a label of the list has that label as its description, no earlier
\* label of the list being found in it first.
C23_AsStated ==
    (mode = "rhb_flex" /\ pc = "done" /\ result.kind = "table") =>
        \A k \in 1..Len(out) :
            \A t \in 1..Len(transaction_types) :
                RhbWorkingText(out[k]) = transaction_types[t] =>
                    result.rows[k].Description = transaction_types[t]

====
